---- MODULE Spec2Model ----
(***************************************************************************)
(* A model of the PushWorld planner: the puzzle's collision tables and     *)
(* transition function (pushworld_puzzle.cc), the best-first search driver *)
(* (best_first_search.h, search.cc), the domain transition graph builder   *)
(* (domain_transition_graph.cc) and the recursive graph distance heuristic *)
(* (recursive_graph_distance.cc).                                          *)
(*                                                                         *)
(* Vectors indexed from 0 in the source (State, the collision tables, the  *)
(* scratch vectors) are functions on 0..n-1; vectors that are only         *)
(* appended to and read in order (Plan, moved_object_indices) are          *)
(* sequences.                                                              *)
(***************************************************************************)
EXTENDS Integers, Sequences, FiniteSets, Bags, TLC

VARIABLES
    m_puzzle,             \* which puzzle of the catalogue the PushWorldPuzzle object holds
    m_pushing_frontier,   \* PushWorldPuzzle::m_pushing_frontier (mutable scratch)
    m_pushed_object_idxs, \* PushWorldPuzzle::m_pushed_object_idxs (mutable scratch)
    m_pushed_objects,     \* PushWorldPuzzle::m_pushed_objects (mutable scratch)
    pc,                   \* position of the running procedure
    state,                \* the State the caller currently holds
    last_call,            \* arguments and result of the latest getNextState call
    last_goal_check,      \* argument and result of the latest satisfiesGoal call
    visited,              \* best_first_search: the StateSet `visited`
    frontier,             \* best_first_search: the priority queue `frontier`
    action_iterator,      \* RandomActionIterator::m_next_action_group, as an index
    search_result,        \* what best_first_search returned
    graphs,               \* build_feasible_movement_graphs: `graphs`
    dtg_frontier,         \* build_feasible_movement_graphs: `frontier`
    dependent_transitions, \* build_feasible_movement_graphs: `dependent_transitions`
    m_fewest_tools,       \* RecursiveGraphDistanceHeuristic::m_fewest_tools
    m_movement_graphs,    \* RecursiveGraphDistanceHeuristic::m_movement_graphs
    m_path_distances,     \* RecursiveGraphDistanceHeuristic::m_path_distances
    m_pushing_cost_cache, \* RecursiveGraphDistanceHeuristic::m_pushing_cost_cache
    last_estimate,        \* argument and result of the latest estimate_cost_to_goal call
    last_conversion,      \* arguments and result of the latest Position2D computation
    path_graph,           \* the FeasibleMovementGraph a PathDistances was constructed from
    path_distances,       \* that PathDistances object
    last_distance,        \* arguments and result of its latest getDistance call
    m_state_size,         \* NoveltyHeuristic::m_state_size
    m_visited_positions,  \* NoveltyHeuristic::m_visited_positions
    m_visited_position_pairs, \* NoveltyHeuristic::m_visited_position_pairs
    baseline_positions,   \* BaselineNoveltyHeuristic::m_visited_positions
    baseline_pairs,       \* BaselineNoveltyHeuristic::m_visited_position_pairs
    legacy_positions,     \* m_visited_positions of a NoveltyHeuristic that takes a State
    legacy_pairs,         \* m_visited_position_pairs of that NoveltyHeuristic
    passed_states,        \* the states passed to estimate_cost_to_goal so far
    test_costs,           \* the costs returned so far to test_novelty_heuristic
    last_novelty,         \* arguments and results of the latest novelty estimate
    heuristics,           \* the child heuristics a caller made with std::make_shared
    m_heuristics_and_weights, \* WeightedSumHeuristic::m_heuristics_and_weights
    last_sum,             \* arguments, child calls and result of the latest weighted sum
    queues,               \* a FibonacciPriorityQueue and a BucketPriorityQueue, by kind
    held,                 \* per queue, the entries pushed and not popped since the last clear
    queue_counts,         \* the pushes and the pops since the last clear
    last_queue_op,        \* the latest queue operation and what it returned
    search_node,          \* the last SearchNode of a chain a caller has made
    chain_actions,        \* the actions that gave the states of the chain, root first
    last_backtrack,       \* argument and result of the latest backtrackPlan call
    m_action_groups,      \* RandomActionIterator::m_action_groups
    returned_groups,      \* what the calls of RandomActionIterator::next returned
    heuristic_costs,      \* the cost a deterministic heuristic returns for each state
    searches              \* what each best_first_search call so far returned and left

puzzle_vars == <<m_puzzle, m_pushing_frontier, m_pushed_object_idxs, m_pushed_objects>>
vars == <<m_puzzle, m_pushing_frontier, m_pushed_object_idxs, m_pushed_objects,
          pc, state, last_call, last_goal_check,
          visited, frontier, action_iterator, search_result,
          graphs, dtg_frontier, dependent_transitions,
          m_fewest_tools, m_movement_graphs, m_path_distances,
          m_pushing_cost_cache, last_estimate,
          last_conversion, path_graph, path_distances, last_distance,
          m_state_size, m_visited_positions, m_visited_position_pairs,
          baseline_positions, baseline_pairs, legacy_positions, legacy_pairs,
          passed_states, test_costs, last_novelty,
          heuristics, m_heuristics_and_weights, last_sum,
          queues, held, queue_counts, last_queue_op,
          search_node, chain_actions, last_backtrack,
          m_action_groups, returned_groups, heuristic_costs, searches>>
rgd_vars == <<m_fewest_tools, m_movement_graphs, m_path_distances,
              m_pushing_cost_cache, last_estimate>>
dtg_vars == <<graphs, dtg_frontier, dependent_transitions>>
search_vars == <<visited, frontier, action_iterator, search_result>>
path_vars == <<path_graph, path_distances, last_distance>>
novelty_vars == <<m_state_size, m_visited_positions, m_visited_position_pairs,
                  baseline_positions, baseline_pairs, legacy_positions, legacy_pairs,
                  passed_states, test_costs, last_novelty>>
aux_vars == <<last_conversion, path_vars, novelty_vars>>
sum_vars == <<heuristics, m_heuristics_and_weights, last_sum>>
queue_vars == <<queues, held, queue_counts, last_queue_op>>
chain_vars == <<search_node, chain_actions, last_backtrack>>
iterator_vars == <<m_action_groups, returned_groups>>
repeat_vars == <<heuristic_costs, searches>>
ext_vars == <<sum_vars, queue_vars, chain_vars, iterator_vars, repeat_vars>>
old_vars == <<puzzle_vars, state, last_call, last_goal_check, search_vars, dtg_vars,
              rgd_vars, aux_vars>>

----------------------------------------------------------------------------
(* Constants of pushworld_puzzle.h *)

POSITION_LIMIT == 10000
AGENT == 0
LEFT == 0
RIGHT == 1
UP == 2
DOWN == 3
NUM_ACTIONS == 4

Actions == 0 .. (NUM_ACTIONS - 1)

xy_to_position(x, y) == x * POSITION_LIMIT + y

\* POINT_DISPLACEMENTS, as <<x, y>> points
POINT_DISPLACEMENTS ==
    [a \in Actions |->
        CASE a = LEFT -> <<-1, 0>>
          [] a = RIGHT -> <<1, 0>>
          [] a = UP -> <<0, -1>>
          [] OTHER -> <<0, 1>>]

ACTION_DISPLACEMENTS ==
    [a \in Actions |->
        CASE a = LEFT -> xy_to_position(-1, 0)
          [] a = RIGHT -> xy_to_position(1, 0)
          [] a = UP -> xy_to_position(0, -1)
          [] OTHER -> xy_to_position(0, 1)]

----------------------------------------------------------------------------
(* Generic helpers *)

Min(S) == CHOOSE x \in S : \A y \in S : x <= y
Max(S) == CHOOSE x \in S : \A y \in S : x >= y

\* The elements of a finite set of integers in ascending order.
RECURSIVE SortedSeq(_)
SortedSeq(S) ==
    IF S = {} THEN <<>> ELSE <<Min(S)>> \o SortedSeq(S \ {Min(S)})

----------------------------------------------------------------------------
(* Pixel geometry and collision tables: the anonymous namespace of         *)
(* pushworld_puzzle.cc.  A Point is <<x, y>>.                              *)

point_to_position(p) == p[1] * POSITION_LIMIT + p[2]

PointAdd(p, q) == <<p[1] + q[1], p[2] + q[2]>>
PointSub(p, q) == <<p[1] - q[1], p[2] - q[2]>>

getObjectPosition(pixels) ==
    <<Min({px[1] : px \in pixels}), Min({px[2] : px \in pixels})>>

getObjectSize(pixels) ==
    <<Max({px[1] + 1 : px \in pixels} \cup {0}),
      Max({px[2] + 1 : px \in pixels} \cup {0})>>

offsetObjectPixels(pixels, position) == {PointSub(px, position) : px \in pixels}

pointsOverlap(s1, s2, offset) == \E p \in s1 : PointAdd(offset, p) \in s2

RelativePositions(action, pusher_pixels, pushee_pixels) ==
    {PointSub(pushee_px, PointAdd(pusher_px, POINT_DISPLACEMENTS[action])) :
        pusher_px \in pusher_pixels, pushee_px \in pushee_pixels}

populateCollisions(action, pusher_pixels, pushee_pixels) ==
    {point_to_position(r) :
        r \in {rp \in RelativePositions(action, pusher_pixels, pushee_pixels) :
                 ~pointsOverlap(pusher_pixels, pushee_pixels, rp)}}

populateBoundedCollisions(action, pusher_pixels, pushee_pixels, width, height) ==
    LET pusher_size == getObjectSize(pusher_pixels)
        max_x == width - pusher_size[1]
        max_y == height - pusher_size[2]
    IN {point_to_position(r) :
          r \in {rp \in RelativePositions(action, pusher_pixels, pushee_pixels) :
                   /\ rp[1] >= 0 /\ rp[2] >= 0
                   /\ rp[1] <= max_x /\ rp[2] <= max_y
                   /\ ~pointsOverlap(pusher_pixels, pushee_pixels, rp)}}

(* The part of PushWorldPuzzle(filename) that follows the parsing of the    *)
(* file: the perimeter walls, the object positions, the goal, the initial  *)
(* state and the collision tables.  The input is what the parser leaves in *)
(* obj_pixels: the grid has `cols` x `rows` cells with coordinates from 1; *)
(* a_px, w_px, aw_px are the pixels of "a", "w" and "aw"; m_px[k] are the  *)
(* pixels of the k-th movable in the order of `objects`, g_px[k] (k up to  *)
(* Len(g_px) <= Len(m_px)) the pixels of its goal.                         *)
PuzzleFromPixels(cols, rows, a_px, w_px, aw_px, m_px, g_px) ==
    LET width == cols + 2
        height == rows + 2
        walls == w_px \cup {<<xx, 0>> : xx \in 0 .. width - 1}
                      \cup {<<xx, height - 1>> : xx \in 0 .. width - 1}
                      \cup {<<0, yy>> : yy \in 0 .. height - 1}
                      \cup {<<width - 1, yy>> : yy \in 0 .. height - 1}
        agent_walls == aw_px \cup walls
        num_objects == 1 + Len(m_px)
        raw_pixels == [i \in 0 .. num_objects - 1 |->
                          IF i = AGENT THEN a_px ELSE m_px[i]]
        object_positions == [i \in 0 .. num_objects - 1 |->
                                getObjectPosition(raw_pixels[i])]
        obj_pixels == [i \in 0 .. num_objects - 1 |->
                          offsetObjectPixels(raw_pixels[i], object_positions[i])]
    IN [m_initial_state |->
            [i \in 0 .. num_objects - 1 |-> point_to_position(object_positions[i])],
        m_num_objects |-> num_objects,
        m_goal |->
            [i \in 0 .. Len(g_px) - 1 |->
                point_to_position(getObjectPosition(g_px[i + 1]))],
        static_collisions |->
            [action \in Actions |->
                [m \in 0 .. num_objects - 1 |->
                    IF m = AGENT
                    THEN populateBoundedCollisions(action, obj_pixels[AGENT],
                                                   agent_walls, width, height)
                    ELSE populateBoundedCollisions(action, obj_pixels[m],
                                                   walls, width, height)]],
        dynamic_collisions |->
            [action \in Actions |->
                [pusher \in 0 .. num_objects - 1 |->
                    [pushee \in 0 .. num_objects - 1 |->
                        IF pushee = AGENT THEN {}
                        ELSE populateCollisions(action, obj_pixels[pusher],
                                                obj_pixels[pushee])]]],
        width |-> width,
        height |-> height,
        walls |-> walls,
        agent_walls |-> agent_walls,
        obj_pixels |-> obj_pixels]

----------------------------------------------------------------------------
(* The puzzles the model runs on.  Trivial is puzzles/trivial.pwp as       *)
(* test_trivial_file_parsing describes it; the others are small boards     *)
(* that exercise transitive pushing, transitive stopping, multi-pixel      *)
(* objects, several goals, no goal and an unreachable goal.                *)

\* 3x3: a wall at (1,1), an agent wall at (1,3), a at (1,2), m0 at (2,2), g0 at (3,1)
Trivial ==
    PuzzleFromPixels(3, 3, {<<1, 2>>}, {<<1, 1>>}, {<<1, 3>>},
                     << {<<2, 2>>} >>, << {<<3, 1>>} >>)

\* one row "a m0 m1 m2 ." with the goal of m0 at (3,1)
Corridor ==
    PuzzleFromPixels(5, 1, {<<1, 1>>}, {}, {},
                     << {<<2, 1>>}, {<<3, 1>>}, {<<4, 1>>} >>, << {<<3, 1>>} >>)

\* 4x2: m0 is a vertical bar of two pixels that pushes m1 and m2 at once
Bar ==
    PuzzleFromPixels(4, 2, {<<1, 1>>}, {}, {},
                     << {<<2, 1>>, <<2, 2>>}, {<<3, 1>>}, {<<3, 2>>} >>,
                     << {<<3, 1>>, <<3, 2>>}, {<<4, 1>>} >>)

\* one row "a m0 g0 w m1": m1 is walled off and can never be used as a tool
IsolatedTool ==
    PuzzleFromPixels(5, 1, {<<1, 1>>}, {<<4, 1>>}, {},
                     << {<<2, 1>>}, {<<5, 1>>} >>, << {<<3, 1>>} >>)

\* 3x2: m0 sits in a corner and its goal is elsewhere: no solution
NoSolution ==
    PuzzleFromPixels(3, 2, {<<1, 1>>}, {}, {},
                     << {<<3, 2>>} >>, << {<<1, 2>>} >>)

\* 2x2 with a movable and no goal at all
NoGoal ==
    PuzzleFromPixels(2, 2, {<<1, 1>>}, {}, {}, << {<<2, 1>>} >>, << >>)

\* one row "a . m0 g0": the shortest plan has two steps
TwoSteps ==
    PuzzleFromPixels(4, 1, {<<1, 1>>}, {}, {}, << {<<3, 1>>} >>, << {<<4, 1>>} >>)

\* one row "a m0 m1 .": the agent pushes m0, which pushes m1 onto its goal
Train ==
    PuzzleFromPixels(4, 1, {<<1, 1>>}, {}, {},
                     << {<<2, 1>>}, {<<3, 1>>} >>, << {<<3, 1>>}, {<<4, 1>>} >>)

\* 4x2, rows "a m1 m0 g0" and "a . w w": the agent is a vertical bar of two
\* pixels that the walls keep out of the two right columns, so it can push
\* m0 onto its goal only through the tool m1
TallAgent ==
    PuzzleFromPixels(4, 2, {<<1, 1>>, <<1, 2>>}, {<<3, 2>>, <<4, 2>>}, {},
                     << {<<3, 1>>}, {<<2, 1>>} >>, << {<<4, 1>>} >>)

\* one row "a m0 m1 m0 .": m0 has two pixels with m1 between them, so that
\* each of the two pushes the other when either moves right or left
Interlocked ==
    PuzzleFromPixels(5, 1, {<<1, 1>>}, {}, {},
                     << {<<2, 1>>, <<4, 1>>}, {<<3, 1>>} >>, << {<<3, 1>>, <<5, 1>>} >>)

\* 3x2, rows "a m1 ." and "g0 . m0": m0 sits in a corner away from its goal,
\* so that no state has a solution, while the agent can still push m1
Stuck ==
    PuzzleFromPixels(3, 2, {<<1, 1>>}, {}, {},
                     << {<<3, 2>>}, {<<2, 1>>} >>, << {<<1, 2>>} >>)

Puzzles ==
    <<Trivial, Corridor, Bar, IsolatedTool, NoSolution, NoGoal, TwoSteps, Train, TallAgent,
      Interlocked, Stuck>>

PuzzleIds == 1 .. Len(Puzzles)

\* The pixels object i covers when its corner is at point pt.
PixelsAt(puz, i, pt) == {PointAdd(px, pt) : px \in puz.obj_pixels[i]}

\* Every state that a board can show: each object's corner is on a cell of
\* the grid, no object overlaps a wall (the agent: an agent wall) and no
\* two objects overlap.  A State is kept as positions; pts are the points.
GridPoints(puz) ==
    {<<x, y>> : x \in 1 .. puz.width - 2, y \in 1 .. puz.height - 2}

GridStates(puz) ==
    LET placements == [0 .. puz.m_num_objects - 1 -> GridPoints(puz)]
        ok(pl) ==
            /\ \A i \in DOMAIN pl :
                  PixelsAt(puz, i, pl[i]) \cap
                      (IF i = AGENT THEN puz.agent_walls ELSE puz.walls) = {}
            /\ \A i, j \in DOMAIN pl :
                  i < j => PixelsAt(puz, i, pl[i]) \cap PixelsAt(puz, j, pl[j]) = {}
    IN {[i \in DOMAIN pl |-> point_to_position(pl[i])] :
            pl \in {q \in placements : ok(q)}}

\* GridStates of every puzzle of the catalogue.
CatalogueStates == [p \in PuzzleIds |-> GridStates(Puzzles[p])]

----------------------------------------------------------------------------
(* PushWorldPuzzle *)

\* PushWorldPuzzle::init: the scratch vectors as the constructor leaves them.
\* resize() value-initializes the ints to 0.
init_pushing_frontier(puz) == [i \in 0 .. puz.m_num_objects - 1 |-> 0]
init_pushed_object_idxs(puz) == [i \in 0 .. puz.m_num_objects - 1 |-> 0]
init_pushed_objects(puz) == [i \in 0 .. puz.m_num_objects - 1 |-> (i = AGENT)]

\* "The agent cannot move": the test at the top of getNextState.
AgentBlocked(puz, s, action) == s[AGENT] \in puz.static_collisions[action][AGENT]

\* "Test whether the obstacle is pushed by the object."
Pushes(puz, s, action, object_idx, obstacle_idx) ==
    (s[object_idx] - s[obstacle_idx])
        \in puz.dynamic_collisions[action][object_idx][obstacle_idx]

ObstacleBlocked_Never(puz, s, action, obstacle_idx) == FALSE

\* The static-collision test of a pushed obstacle (transitive stopping).
ObstacleBlocked(puz, s, action, obstacle_idx) ==
    s[obstacle_idx] \in puz.static_collisions[action][obstacle_idx]

UnmarkPushed_AllButLast(m) ==
    [j \in DOMAIN m.pushed |->
        IF \E i \in 1 .. m.np - 2 : m.idxs[i] = j THEN FALSE ELSE m.pushed[j]]

\* "transitive stopping; nothing can move": the loop that clears
\* m_pushed_objects for m_pushed_object_idxs[1 .. num_pushed_objects - 1].
UnmarkPushed(m) ==
    [j \in DOMAIN m.pushed |->
        IF \E i \in 1 .. m.np - 1 : m.idxs[i] = j THEN FALSE ELSE m.pushed[j]]

FirstObstacle_Two == 1 + 1

\* The first obstacle_idx of the for loop over the obstacles.
FirstObstacle == 1

\* The for loop over obstacle_idx inside the while loop.  m is the machine
\* state of the call: frontier, idxs, pushed (the three scratch vectors),
\* nf = num_frontier_objects, np = num_pushed_objects, stopped = the early
\* return of transitive stopping was taken.
RECURSIVE ScanObstacles(_, _, _, _, _, _)
ScanObstacles(puz, s, action, object_idx, obstacle_idx, m) ==
    IF obstacle_idx >= puz.m_num_objects THEN m
    ELSE IF m.pushed[obstacle_idx]
    THEN ScanObstacles(puz, s, action, object_idx, obstacle_idx + 1, m)
    ELSE IF Pushes(puz, s, action, object_idx, obstacle_idx)
    THEN IF ObstacleBlocked(puz, s, action, obstacle_idx)
         THEN [m EXCEPT !.pushed = UnmarkPushed(m), !.stopped = TRUE]
         ELSE ScanObstacles(puz, s, action, object_idx, obstacle_idx + 1,
                  [m EXCEPT !.pushed[obstacle_idx] = TRUE,
                            !.idxs[m.np] = obstacle_idx,
                            !.np = m.np + 1,
                            !.frontier[m.nf] = obstacle_idx,
                            !.nf = m.nf + 1])
    ELSE ScanObstacles(puz, s, action, object_idx, obstacle_idx + 1, m)

\* while (num_frontier_objects): pop the last frontier entry and scan.
RECURSIVE PushingLoop(_, _, _, _)
PushingLoop(puz, s, action, m) ==
    IF m.stopped \/ m.nf = 0 THEN m
    ELSE LET object_idx == m.frontier[m.nf - 1]
         IN PushingLoop(puz, s, action,
                ScanObstacles(puz, s, action, object_idx, FirstObstacle,
                              [m EXCEPT !.nf = m.nf - 1]))

\* getNextState that displaces by the table entry of UP where the action is
\* DOWN
getNextState_DownIsUp(puz, scratch, s, action) ==
    IF AgentBlocked(puz, s, action)
    THEN [state |-> s, moved_object_indices |-> <<>>, scratch |-> scratch]
    ELSE
      LET m0 == [frontier |-> [scratch.frontier EXCEPT ![0] = AGENT],
                 idxs |-> scratch.idxs,
                 pushed |-> scratch.pushed,
                 nf |-> 1, np |-> 1, stopped |-> FALSE]
          m == PushingLoop(puz, s, action, m0)
          displacement == ACTION_DISPLACEMENTS[IF action = DOWN THEN UP ELSE action]
          moved == {AGENT} \cup {i \in 1 .. puz.m_num_objects - 1 : m.pushed[i]}
      IN IF m.stopped
         THEN [state |-> s, moved_object_indices |-> <<>>,
               scratch |-> [frontier |-> m.frontier, idxs |-> m.idxs,
                            pushed |-> m.pushed]]
         ELSE [state |-> [i \in 0 .. puz.m_num_objects - 1 |->
                             IF i \in moved THEN s[i] + displacement ELSE s[i]],
               moved_object_indices |-> SortedSeq(moved),
               scratch |-> [frontier |-> m.frontier, idxs |-> m.idxs,
                            pushed |-> [i \in DOMAIN m.pushed |->
                                          IF i >= 1 THEN FALSE ELSE m.pushed[i]]]]

\* PushWorldPuzzle::getNextState on the scratch vectors `scratch` =
\* [frontier, idxs, pushed].  Returns the RelativeState (state,
\* moved_object_indices) and the scratch vectors as the call leaves them.
getNextState(puz, scratch, s, action) ==
    IF AgentBlocked(puz, s, action)
    THEN [state |-> s, moved_object_indices |-> <<>>, scratch |-> scratch]
    ELSE
      LET m0 == [frontier |-> [scratch.frontier EXCEPT ![0] = AGENT],
                 idxs |-> scratch.idxs,
                 pushed |-> scratch.pushed,
                 nf |-> 1, np |-> 1, stopped |-> FALSE]
          m == PushingLoop(puz, s, action, m0)
          displacement == ACTION_DISPLACEMENTS[action]
          moved == {AGENT} \cup {i \in 1 .. puz.m_num_objects - 1 : m.pushed[i]}
      IN IF m.stopped
         THEN [state |-> s, moved_object_indices |-> <<>>,
               scratch |-> [frontier |-> m.frontier, idxs |-> m.idxs,
                            pushed |-> m.pushed]]
         ELSE [state |-> [i \in 0 .. puz.m_num_objects - 1 |->
                             IF i \in moved THEN s[i] + displacement ELSE s[i]],
               moved_object_indices |-> SortedSeq(moved),
               scratch |-> [frontier |-> m.frontier, idxs |-> m.idxs,
                            pushed |-> [i \in DOMAIN m.pushed |->
                                          IF i >= 1 THEN FALSE ELSE m.pushed[i]]]]

\* The scratch vectors of a freshly constructed puzzle.
FreshScratch(puz) ==
    [frontier |-> init_pushing_frontier(puz),
     idxs |-> init_pushed_object_idxs(puz),
     pushed |-> init_pushed_objects(puz)]

GoalSize(puz) == Cardinality(DOMAIN puz.m_goal)

GoalObject_SameIndex(i) == i

\* The index `++i` of the state entry that goal entry i is compared with.
GoalObject(i) == i + 1

\* PushWorldPuzzle::satisfiesGoal: the loop over the goal entries, which
\* returns false at the first entry that differs.
RECURSIVE satisfiesGoalFrom(_, _, _)
satisfiesGoalFrom(puz, s, i) ==
    IF i >= GoalSize(puz) THEN TRUE
    ELSE IF puz.m_goal[i] # s[GoalObject(i)] THEN FALSE
    ELSE satisfiesGoalFrom(puz, s, i + 1)

satisfiesGoal(puz, s) == satisfiesGoalFrom(puz, s, 0)

----------------------------------------------------------------------------
(* SpecPuzzle: a caller that holds a State and calls getNextState on it,   *)
(* over and over, on one puzzle object.  The first state is any placement  *)
(* of the objects on the grid.                                             *)

Puz == Puzzles[m_puzzle]

Scratch ==
    [frontier |-> m_pushing_frontier, idxs |-> m_pushed_object_idxs,
     pushed |-> m_pushed_objects]

\* No RecursiveGraphDistanceHeuristic has been constructed.
NoHeuristic ==
    /\ m_fewest_tools = FALSE
    /\ m_movement_graphs = <<>>
    /\ m_path_distances = <<>>
    /\ m_pushing_cost_cache = <<>>
    /\ last_estimate = <<>>

\* No NoveltyHeuristic has been constructed.
NoNovelty ==
    /\ m_state_size = 0
    /\ m_visited_positions = <<>>
    /\ m_visited_position_pairs = <<>>
    /\ baseline_positions = <<>>
    /\ baseline_pairs = <<>>
    /\ legacy_positions = <<>>
    /\ legacy_pairs = <<>>
    /\ passed_states = {}
    /\ test_costs = <<>>
    /\ last_novelty = <<>>

\* No Position2D has been computed, no PathDistances and no NoveltyHeuristic
\* constructed.
AuxIdle ==
    /\ last_conversion = <<>>
    /\ path_graph = <<>>
    /\ path_distances = <<>>
    /\ last_distance = <<>>
    /\ NoNovelty

\* No WeightedSumHeuristic has been constructed.
NoWeightedSum ==
    /\ heuristics = <<>>
    /\ m_heuristics_and_weights = <<>>
    /\ last_sum = <<>>

\* No priority queue has been constructed apart from the frontier.
NoQueues ==
    /\ queues = <<>>
    /\ held = <<>>
    /\ queue_counts = <<>>
    /\ last_queue_op = <<>>

\* No chain of SearchNodes has been made apart from those of a search.
NoChain ==
    /\ search_node = <<>>
    /\ chain_actions = <<>>
    /\ last_backtrack = <<>>

\* No RandomActionIterator has been constructed apart from that of a
\* search, and no search has been repeated.
NoIterator ==
    /\ m_action_groups = <<>>
    /\ returned_groups = <<>>
    /\ heuristic_costs = <<>>
    /\ searches = <<>>

ExtIdle ==
    /\ NoWeightedSum
    /\ NoQueues
    /\ NoChain
    /\ NoIterator

PuzzleInit ==
    /\ m_puzzle \in PuzzleIds
    /\ m_pushing_frontier = init_pushing_frontier(Puzzles[m_puzzle])
    /\ m_pushed_object_idxs = init_pushed_object_idxs(Puzzles[m_puzzle])
    /\ m_pushed_objects = init_pushed_objects(Puzzles[m_puzzle])
    /\ pc = "idle"
    /\ state \in CatalogueStates[m_puzzle]
    /\ last_call = <<>>
    /\ last_goal_check = <<>>
    /\ visited = {}
    /\ frontier = <<>>
    /\ action_iterator = 0
    /\ search_result = <<>>
    /\ graphs = <<>>
    /\ dtg_frontier = {}
    /\ dependent_transitions = <<>>
    /\ NoHeuristic
    /\ AuxIdle
    /\ ExtIdle

CallGetNextState(action) ==
    /\ pc = "idle"
    /\ LET r == getNextState(Puz, Scratch, state, action)
       IN /\ m_pushing_frontier' = r.scratch.frontier
          /\ m_pushed_object_idxs' = r.scratch.idxs
          /\ m_pushed_objects' = r.scratch.pushed
          /\ state' = r.state
          /\ last_call' = << [state |-> state, action |-> action,
                              result |-> [state |-> r.state,
                                          moved_object_indices |-> r.moved_object_indices]] >>
    /\ UNCHANGED <<ext_vars, m_puzzle, pc, last_goal_check, search_vars, dtg_vars, rgd_vars, aux_vars>>

CallSatisfiesGoal ==
    /\ pc = "idle"
    /\ last_goal_check' = << [state |-> state, result |-> satisfiesGoal(Puz, state)] >>
    /\ UNCHANGED <<ext_vars, puzzle_vars, pc, state, last_call, search_vars, dtg_vars, rgd_vars, aux_vars>>

PuzzleNext ==
    \/ \E action \in Actions : CallGetNextState(action)
    \/ CallSatisfiesGoal

SpecPuzzle == PuzzleInit /\ [][PuzzleNext]_vars

----------------------------------------------------------------------------
(* Properties of getNextState and satisfiesGoal, under SpecPuzzle *)

\* The objects in pushing contact with the agent, directly or through
\* other objects: the least set that holds the agent and every non-agent
\* object q whose relative position to a member o is in
\* dynamic_collisions[action][o][q].
RECURSIVE ContactClosure(_, _, _, _)
ContactClosure(puz, s, action, X) ==
    LET Y == X \cup {q \in 1 .. puz.m_num_objects - 1 :
                        \E o \in X : (s[o] - s[q]) \in
                            puz.dynamic_collisions[action][o][q]}
    IN IF Y = X THEN X ELSE ContactClosure(puz, s, action, Y)

Chain(puz, s, action) == ContactClosure(puz, s, action, {AGENT})

\* Some member of the chain (the agent included) is at a position in its
\* own static-collision set for the action.
ChainHitsWall(puz, s, action) ==
    \E o \in Chain(puz, s, action) : s[o] \in puz.static_collisions[action][o]

\* C3: if the agent, or any object of the chain transitively pushed from
\* the agent, is at a position in its static-collision set for the action,
\* getNextState returns the input state and an empty moved_object_indices.
C3_TransitiveStopping ==
    \A k \in DOMAIN last_call :
        LET c == last_call[k]
        IN ChainHitsWall(Puz, c.state, c.action)
              => /\ c.result.state = c.state
                 /\ c.result.moved_object_indices = <<>>

\* A call in which the agent was free to move and pushed an object that
\* itself pushed an object standing against a wall.
C3_Witness ==
    \E k \in DOMAIN last_call :
        LET c == last_call[k]
        IN /\ c.state[AGENT] \notin Puz.static_collisions[c.action][AGENT]
           /\ \E o, q \in Chain(Puz, c.state, c.action) \ {AGENT} :
                 /\ o # q
                 /\ c.state[o] \notin Puz.static_collisions[c.action][o]
                 /\ (c.state[o] - c.state[q])
                        \in Puz.dynamic_collisions[c.action][o][q]
                 /\ c.state[q] \in Puz.static_collisions[c.action][q]
           /\ c.result.state = c.state

\* C4: when no member of the chain hits a wall, getNextState returns a
\* state of the same length in which exactly the members of the chain are
\* displaced by the action's displacement and every other object keeps its
\* position, and moved_object_indices lists exactly the indices whose
\* positions changed, in ascending order, the agent first.
C4_PushesExactlyTheChain ==
    \A k \in DOMAIN last_call :
        LET c == last_call[k]
            chain == Chain(Puz, c.state, c.action)
            moved == c.result.moved_object_indices
        IN ~ChainHitsWall(Puz, c.state, c.action)
              => /\ DOMAIN c.result.state = DOMAIN c.state
                 /\ \A i \in DOMAIN c.state :
                       c.result.state[i] =
                           IF i \in chain
                           THEN c.state[i] + ACTION_DISPLACEMENTS[c.action]
                           ELSE c.state[i]
                 /\ {moved[j] : j \in DOMAIN moved} =
                        {i \in DOMAIN c.state : c.result.state[i] # c.state[i]}
                 /\ {moved[j] : j \in DOMAIN moved} = chain
                 /\ \A i, j \in DOMAIN moved : i < j => moved[i] < moved[j]
                 /\ moved[1] = AGENT

\* A call that moved the agent and at least two objects, one of them pushed
\* by another object and not by the agent.
C4_Witness ==
    \E k \in DOMAIN last_call :
        LET c == last_call[k]
        IN /\ Len(c.result.moved_object_indices) >= 3
           /\ \E q \in 1 .. Puz.m_num_objects - 1 :
                 /\ c.result.state[q] # c.state[q]
                 /\ (c.state[AGENT] - c.state[q])
                        \notin Puz.dynamic_collisions[c.action][AGENT][q]

\* C5: after any sequence of getNextState calls on one puzzle object, only
\* the agent is marked in m_pushed_objects, and the latest call returned
\* what a freshly constructed puzzle returns for the same state and action.
C5_PureFunction ==
    /\ m_pushed_objects = init_pushed_objects(Puz)
    /\ \A k \in DOMAIN last_call :
          LET c == last_call[k]
              fresh == getNextState(Puz, FreshScratch(Puz), c.state, c.action)
          IN /\ c.result.state = fresh.state
             /\ c.result.moved_object_indices = fresh.moved_object_indices

\* The latest call ended in transitive stopping after it had tentatively
\* marked two objects as pushed (their indices are still in the scratch
\* vector m_pushed_object_idxs).
C5_Witness ==
    \E k \in DOMAIN last_call :
        LET c == last_call[k]
        IN /\ c.state[AGENT] \notin Puz.static_collisions[c.action][AGENT]
           /\ c.result.moved_object_indices = <<>>
           /\ Puz.m_num_objects >= 4
           /\ m_pushed_object_idxs[1] # 0
           /\ m_pushed_object_idxs[2] # 0

\* C10: satisfiesGoal(state) is true exactly when state[i+1] = goal[i] for
\* every goal index i; the result is the same for every state that agrees
\* on the objects that have a goal entry, and an empty goal is satisfied.
C10_SatisfiesGoal ==
    \A k \in DOMAIN last_goal_check :
        LET c == last_goal_check[k]
        IN /\ c.result = (\A i \in DOMAIN Puz.m_goal : c.state[i + 1] = Puz.m_goal[i])
           /\ \A t \in CatalogueStates[m_puzzle] :
                 (\A i \in DOMAIN Puz.m_goal : t[i + 1] = c.state[i + 1])
                     => satisfiesGoal(Puz, t) = c.result
           /\ (DOMAIN Puz.m_goal = {}) => c.result

\* A check that came out true on a puzzle with two goals, and so did not
\* stop at the first goal entry.
C10_Witness ==
    \E k \in DOMAIN last_goal_check :
        /\ last_goal_check[k].result
        /\ GoalSize(Puz) = 2

----------------------------------------------------------------------------
(* Priority queues (priority_queue.h).  The boost Fibonacci heap is kept   *)
(* as the bag of its entries: which of several entries of equal, minimum   *)
(* priority is its top is internal to the heap, so top() may be any of     *)
(* them.  A std::stack is a sequence whose top is its last element.        *)

\* std::numeric_limits<float>::infinity(), as a number above every finite
\* cost or priority of the model
Infinity == 1000000000

\* The largest finite priority a heuristic of the model returns.
MaxPriority == 1

Priorities == (0 .. MaxPriority) \cup {Infinity}

QueueKinds == {"fibonacci", "bucket"}

\* A queue as its constructor leaves it.
NewQueue(kind) ==
    IF kind = "fibonacci"
    THEN [kind |-> kind, m_heap |-> EmptyBag]
    ELSE [kind |-> kind, m_priority_heap |-> EmptyBag, m_elements |-> <<>>,
          m_num_elements |-> 0]

QueueSize(q) ==
    IF q.kind = "fibonacci" THEN BagCardinality(q.m_heap) ELSE q.m_num_elements

QueueEmpty(q) ==
    IF q.kind = "fibonacci" THEN q.m_heap = EmptyBag ELSE q.m_num_elements = 0

\* clear() that leaves the priority heap as it is
QueueClear_KeepHeap(q) ==
    IF q.kind = "fibonacci" THEN NewQueue(q.kind)
    ELSE [q EXCEPT !.m_elements = <<>>, !.m_num_elements = 0]

\* clear()
QueueClear(q) == NewQueue(q.kind)

\* push() that starts the bucket of the priority afresh
QueueInsert_ReplaceBucket(q, element, priority) ==
    IF q.kind = "fibonacci"
    THEN [q EXCEPT !.m_heap = @ (+) SetToBag({<<element, priority>>})]
    ELSE IF priority \notin DOMAIN q.m_elements
         THEN [q EXCEPT !.m_elements = (priority :> <<element>>) @@ @,
                        !.m_priority_heap = @ (+) SetToBag({priority}),
                        !.m_num_elements = @ + 1]
         ELSE [q EXCEPT !.m_elements[priority] = <<element>>,
                        !.m_num_elements = @ + 1]

\* The insertion of push(): into the heap, or into the bucket of the
\* priority, created (and its priority pushed on the heap) if absent.
QueueInsert(q, element, priority) ==
    IF q.kind = "fibonacci"
    THEN [q EXCEPT !.m_heap = @ (+) SetToBag({<<element, priority>>})]
    ELSE IF priority \notin DOMAIN q.m_elements
         THEN [q EXCEPT !.m_elements = (priority :> <<element>>) @@ @,
                        !.m_priority_heap = @ (+) SetToBag({priority}),
                        !.m_num_elements = @ + 1]
         ELSE [q EXCEPT !.m_elements[priority] = Append(@, element),
                        !.m_num_elements = @ + 1]

QueuePush_SkipInfinite(q, element, priority) ==
    IF priority = Infinity THEN q ELSE QueueInsert(q, element, priority)

\* push(element, priority)
QueuePush(q, element, priority) == QueueInsert(q, element, priority)

\* The priority at the top of the heap: with CompareElementPriorityPair and
\* ComparePriority, the least one.
QueueMinPriority(q) ==
    IF q.kind = "fibonacci"
    THEN Min({e[2] : e \in BagToSet(q.m_heap)})
    ELSE Min(BagToSet(q.m_priority_heap))

\* The elements top() may return.
QueueTops(q) ==
    IF q.kind = "fibonacci"
    THEN {e[1] : e \in {h \in BagToSet(q.m_heap) : h[2] = QueueMinPriority(q)}}
    ELSE LET bucket == q.m_elements[QueueMinPriority(q)]
         IN {bucket[Len(bucket)]}

\* pop() that leaves the priority of an emptied bucket on the heap
QueuePop_KeepPriority(q, top) ==
    IF q.kind = "fibonacci"
    THEN [q EXCEPT !.m_heap = @ (-) SetToBag({<<top, QueueMinPriority(q)>>})]
    ELSE IF Len(q.m_elements[QueueMinPriority(q)]) = 1
         THEN [q EXCEPT !.m_elements =
                            [pr \in DOMAIN @ \ {QueueMinPriority(q)} |-> @[pr]],
                        !.m_num_elements = @ - 1]
         ELSE [q EXCEPT !.m_elements[QueueMinPriority(q)] = SubSeq(@, 1, Len(@) - 1),
                        !.m_num_elements = @ - 1]

\* pop(), when top() is the element `top`.
QueuePop(q, top) ==
    IF q.kind = "fibonacci"
    THEN [q EXCEPT !.m_heap = @ (-) SetToBag({<<top, QueueMinPriority(q)>>})]
    ELSE LET priority == QueueMinPriority(q)
             bucket == q.m_elements[priority]
         IN IF Len(bucket) = 1
            THEN [q EXCEPT !.m_priority_heap = @ (-) SetToBag({priority}),
                           !.m_elements = [pr \in DOMAIN @ \ {priority} |-> @[pr]],
                           !.m_num_elements = @ - 1]
            ELSE [q EXCEPT !.m_elements[priority] = SubSeq(@, 1, Len(@) - 1),
                           !.m_num_elements = @ - 1]

----------------------------------------------------------------------------
(* Search nodes and plan reconstruction (search.h, search.cc).  A          *)
(* shared_ptr<SearchNode> is the node itself; `parent` is <<>> for nullptr *)
(* and <<node>> otherwise.                                                 *)

\* a node that does not keep its parent
SearchNode_NoParent(parent, s) == [parent |-> <<>>, state |-> s]

SearchNode(parent, s) == [parent |-> parent, state |-> s]

Reverse_None(seq) == seq

RECURSIVE Reverse(_)
Reverse(seq) ==
    IF seq = <<>> THEN <<>> ELSE Append(Reverse(Tail(seq)), Head(seq))

\* a for loop that settles for LEFT when no action matches
RECURSIVE FindAction_NeverFails(_, _, _, _)
FindAction_NeverFails(puz, scratch, node, action) ==
    IF action = NUM_ACTIONS THEN [action |-> LEFT, scratch |-> scratch]
    ELSE LET r == getNextState(puz, scratch, node.parent[1].state, action)
         IN IF node.state = r.state
            THEN [action |-> action, scratch |-> r.scratch]
            ELSE FindAction_NeverFails(puz, r.scratch, node, action + 1)

\* The for loop of backtrackPlan over the actions: the first action that
\* takes the parent's state to the node's state, NUM_ACTIONS if none does.
RECURSIVE FindAction(_, _, _, _)
FindAction(puz, scratch, node, action) ==
    IF action = NUM_ACTIONS THEN [action |-> NUM_ACTIONS, scratch |-> scratch]
    ELSE LET r == getNextState(puz, scratch, node.parent[1].state, action)
         IN IF node.state = r.state
            THEN [action |-> action, scratch |-> r.scratch]
            ELSE FindAction(puz, r.scratch, node, action + 1)

\* The while loop of backtrackPlan; `plan` holds the actions found so far,
\* the latest step first.  thrown: std::invalid_argument was thrown.
RECURSIVE backtrackFrom(_, _, _, _)
backtrackFrom(puz, scratch, node, plan) ==
    IF node.parent = <<>>
    THEN [plan |-> Reverse(plan), thrown |-> FALSE, scratch |-> scratch]
    ELSE LET f == FindAction(puz, scratch, node, 0)
         IN IF f.action = NUM_ACTIONS
            THEN [plan |-> <<>>, thrown |-> TRUE, scratch |-> f.scratch]
            ELSE backtrackFrom(puz, f.scratch, node.parent[1],
                               Append(plan, f.action))

backtrackPlan_FromParent(puz, scratch, end_node) ==
    backtrackFrom(puz, scratch, end_node.parent[1], <<>>)

backtrackPlan(puz, scratch, end_node) == backtrackFrom(puz, scratch, end_node, <<>>)

\* The loop of PushWorldPuzzle::isValidPlan: the state after the plan.
RECURSIVE RunPlan(_, _, _, _)
RunPlan(puz, scratch, s, plan) ==
    IF plan = <<>> THEN s
    ELSE LET r == getNextState(puz, scratch, s, Head(plan))
         IN RunPlan(puz, r.scratch, r.state, Tail(plan))

isValidPlan(puz, scratch, plan) ==
    satisfiesGoal(puz, RunPlan(puz, scratch, puz.m_initial_state, plan))

----------------------------------------------------------------------------
(* The states of a puzzle that some sequence of actions reaches from its   *)
(* initial state, computed from the collision tables alone.                *)

\* The state one action leads to, by the rule of the movement: the agent
\* and the objects of its contact chain move unless one of them meets a wall.
Step(puz, s, action) ==
    IF ChainHitsWall(puz, s, action) THEN s
    ELSE [i \in DOMAIN s |->
            IF i \in Chain(puz, s, action)
            THEN s[i] + ACTION_DISPLACEMENTS[action] ELSE s[i]]

RECURSIVE ReachFrom(_, _, _)
ReachFrom(puz, new, seen) ==
    IF new = {} THEN seen
    ELSE LET next == {Step(puz, s, a) : s \in new, a \in Actions} \ seen
         IN ReachFrom(puz, next, seen \cup next)

ReachableStates == [p \in PuzzleIds |->
    ReachFrom(Puzzles[p], {Puzzles[p].m_initial_state}, {Puzzles[p].m_initial_state})]

\* The searches of the model run on the puzzles with at most this many
\* reachable states.
MaxSearchStates == 6

SearchPuzzleIds ==
    {p \in PuzzleIds : Cardinality(ReachableStates[p]) <= MaxSearchStates}

----------------------------------------------------------------------------
(* best_first_search (best_first_search.h).  One step of the model is the  *)
(* code up to the loop, one iteration of the while loop, or the return     *)
(* after the loop.  The heuristic is any heuristic: each call of           *)
(* estimate_cost_to_goal returns some priority.                            *)

\* RandomActionIterator(): 1000 groups by default.
DEFAULT_NUM_ACTION_GROUPS == 1000

\* The vectors a group can be: the orders of the four actions.  Which order
\* the k-th group has is decided by std::shuffle and the engine seeded with
\* 42; a search of the model takes fewer than DEFAULT_NUM_ACTION_GROUPS
\* groups, so no group is returned twice and each next() is a free choice.
ActionGroups_OneActionShort ==
    {g \in [1 .. NUM_ACTIONS - 1 -> Actions] :
        \A i, j \in 1 .. NUM_ACTIONS - 1 : i # j => g[i] # g[j]}

ActionGroups ==
    {g \in [1 .. NUM_ACTIONS -> Actions] :
        \A i, j \in 1 .. NUM_ACTIONS : i # j => g[i] # g[j]}

\* RandomActionIterator::next on the index of m_next_action_group
NextGroupIndex(i) ==
    IF i + 1 = DEFAULT_NUM_ACTION_GROUPS THEN 0 ELSE i + 1

\* visited.clear()
ClearVisited(vis) == {}

IsVisited_Never(vis, s) == FALSE

\* visited.find(state) != visited.end()
IsVisited(vis, s) == s \in vis

\* The for loop over the actions of one group: the states of the child
\* nodes it creates, in order.  found: the last of them satisfies the goal
\* and the loop was left by the return.
RECURSIVE ExpandFrom(_, _, _, _, _, _, _)
ExpandFrom(puz, scratch, parent_state, group, k, vis, children) ==
    IF k > Len(group)
    THEN [children |-> children, found |-> FALSE, scratch |-> scratch]
    ELSE LET r == getNextState(puz, scratch, parent_state, group[k])
         IN IF IsVisited(vis, r.state)
            THEN ExpandFrom(puz, r.scratch, parent_state, group, k + 1, vis, children)
            ELSE IF satisfiesGoal(puz, r.state)
            THEN [children |-> Append(children, r.state), found |-> TRUE,
                  scratch |-> r.scratch]
            ELSE ExpandFrom(puz, r.scratch, parent_state, group, k + 1,
                            vis \cup {r.state}, Append(children, r.state))

\* frontier.push(node, heuristic.estimate_cost_to_goal(state)) for the
\* first n children, with the priorities the heuristic returned.
RECURSIVE PushChildren(_, _, _, _, _, _)
PushChildren(q, parent_node, children, prios, k, n) ==
    IF k > n THEN q
    ELSE PushChildren(QueuePush(q, SearchNode(<<parent_node>>, children[k]), prios[k]),
                      parent_node, children, prios, k + 1, n)

SearchInit ==
    /\ m_puzzle \in SearchPuzzleIds
    /\ m_pushing_frontier = init_pushing_frontier(Puzzles[m_puzzle])
    /\ m_pushed_object_idxs = init_pushed_object_idxs(Puzzles[m_puzzle])
    /\ m_pushed_objects = init_pushed_objects(Puzzles[m_puzzle])
    /\ pc = "start"
    /\ state = Puzzles[m_puzzle].m_initial_state
    /\ last_call = <<>>
    /\ last_goal_check = <<>>
    \* the caller's queue and set may hold what an earlier search left
    /\ \E kind \in QueueKinds :
          \/ /\ frontier = NewQueue(kind)
             /\ visited = {}
          \/ \E stale \in CatalogueStates[m_puzzle] :
                /\ frontier = QueueInsert(NewQueue(kind), SearchNode(<<>>, stale), 0)
                /\ visited = {stale}
    /\ action_iterator = 0
    /\ search_result = [kind |-> "running", plan |-> <<>>]
    /\ graphs = <<>>
    /\ dtg_frontier = {}
    /\ dependent_transitions = <<>>
    /\ NoHeuristic
    /\ AuxIdle
    /\ ExtIdle

\* From the entry of best_first_search to the while loop.
SearchBegin ==
    /\ pc = "start"
    /\ IF satisfiesGoal(Puz, Puz.m_initial_state)
       THEN /\ search_result' = [kind |-> "plan", plan |-> <<>>]
            /\ pc' = "done"
            /\ UNCHANGED <<visited, frontier, action_iterator>>
       ELSE \E priority \in Priorities :
            /\ visited' = ClearVisited(visited) \cup {Puz.m_initial_state}
            /\ frontier' = QueuePush(QueueClear(frontier),
                                     SearchNode(<<>>, Puz.m_initial_state), priority)
            /\ action_iterator' = 0
            /\ pc' = "loop"
            /\ UNCHANGED search_result
    /\ UNCHANGED <<ext_vars, puzzle_vars, state, last_call, last_goal_check, dtg_vars, rgd_vars, aux_vars>>

\* One iteration of the while loop.
SearchIterate ==
    /\ pc = "loop"
    /\ ~QueueEmpty(frontier)
    /\ \E parent_node \in QueueTops(frontier), group \in ActionGroups :
          LET popped == QueuePop(frontier, parent_node)
              e == ExpandFrom(Puz, Scratch, parent_node.state, group, 1, visited, <<>>)
              npush == IF e.found THEN Len(e.children) - 1 ELSE Len(e.children)
          IN \E prios \in [1 .. npush -> Priorities] :
                /\ frontier' = PushChildren(popped, parent_node, e.children, prios, 1, npush)
                /\ visited' = visited \cup {e.children[i] : i \in 1 .. npush}
                /\ IF e.found
                   THEN LET b == backtrackPlan(Puz, e.scratch,
                                     SearchNode(<<parent_node>>, e.children[Len(e.children)]))
                        IN /\ search_result' =
                                 IF b.thrown THEN [kind |-> "thrown", plan |-> <<>>]
                                 ELSE [kind |-> "plan", plan |-> b.plan]
                           /\ pc' = "done"
                           /\ m_pushing_frontier' = b.scratch.frontier
                           /\ m_pushed_object_idxs' = b.scratch.idxs
                           /\ m_pushed_objects' = b.scratch.pushed
                   ELSE /\ pc' = "loop"
                        /\ m_pushing_frontier' = e.scratch.frontier
                        /\ m_pushed_object_idxs' = e.scratch.idxs
                        /\ m_pushed_objects' = e.scratch.pushed
                        /\ UNCHANGED search_result
    /\ action_iterator' = NextGroupIndex(action_iterator)
    /\ UNCHANGED <<ext_vars, m_puzzle, state, last_call, last_goal_check, dtg_vars, rgd_vars, aux_vars>>

\* "No solution found": the return after the loop.
SearchReturnNone ==
    /\ pc = "loop"
    /\ QueueEmpty(frontier)
    /\ search_result' = [kind |-> "nullopt", plan |-> <<>>]
    /\ pc' = "done"
    /\ UNCHANGED <<ext_vars, puzzle_vars, state, last_call, last_goal_check,
                   visited, frontier, action_iterator, dtg_vars, rgd_vars, aux_vars>>

SearchNext == SearchBegin \/ SearchIterate \/ SearchReturnNone

SpecSearch == SearchInit /\ [][SearchNext]_vars

\* while (!frontier.empty()) with the one effect of its body that does not
\* depend on the puzzle: the action iterator advances.  Every step of
\* SearchIterate is such a step, and SearchIterate can take a step whenever
\* the loop condition holds.
LoopBodyRuns ==
    /\ pc = "loop"
    /\ ~QueueEmpty(frontier)
    /\ action_iterator' = NextGroupIndex(action_iterator)

\* The search is one thread that nothing suspends: the code before the
\* loop, the body of the loop while its condition holds, and the return
\* after it are each executed when control is there.
SpecSearchFair ==
    /\ SearchInit
    /\ [][SearchNext]_vars
    /\ WF_vars(SearchBegin)
    /\ WF_action_iterator(LoopBodyRuns)
    /\ WF_vars(SearchReturnNone)

----------------------------------------------------------------------------
(* Properties of best_first_search, under SpecSearch and SpecSearchFair *)

\* C1: a plan that best_first_search returns (the empty plan included),
\* replayed with getNextState from the initial state, ends in a state that
\* satisfies the goal: isValidPlan holds, for every heuristic and for both
\* queues.
C1_ReturnedPlanIsValid ==
    (pc = "done" /\ search_result.kind = "plan")
        => isValidPlan(Puz, FreshScratch(Puz), search_result.plan)

\* A plan of two actions was returned, rebuilt through two parent links.
C1_Witness ==
    /\ pc = "done"
    /\ search_result.kind = "plan"
    /\ Len(search_result.plan) >= 2

GoalReachable(p) == \E s \in ReachableStates[p] : satisfiesGoal(Puzzles[p], s)

\* C2: best_first_search returns std::nullopt exactly when no reachable
\* state satisfies the goal, and returns a plan whenever one does, whatever
\* priorities the heuristic assigns, infinite ones included.
C2_NoPlanIffUnreachable ==
    pc = "done"
        => /\ (search_result.kind = "nullopt") <=> ~GoalReachable(m_puzzle)
           /\ GoalReachable(m_puzzle) => search_result.kind = "plan"

\* A plan was returned by a search whose frontier still holds a node, and
\* every node it holds was given an infinite priority.
C2_Witness ==
    /\ pc = "done"
    /\ search_result.kind = "plan"
    /\ ~QueueEmpty(frontier)
    /\ QueueMinPriority(frontier) = Infinity

\* C8: when best_first_search returns std::nullopt, visited is exactly the
\* set of the states reachable from the initial state, and the frontier is
\* empty.
C8_NoPlanExhaustsReachable ==
    (pc = "done" /\ search_result.kind = "nullopt")
        => /\ visited = ReachableStates[m_puzzle]
           /\ QueueEmpty(frontier)

\* std::nullopt was returned with at least five states visited.
C8_Witness ==
    /\ pc = "done"
    /\ search_result.kind = "nullopt"
    /\ Cardinality(visited) >= 5

\* C9: the search terminates, by returning a plan or by emptying the
\* frontier, and every state is pushed onto the frontier at most once: in
\* the loop the pushes so far (one per iteration popped, plus those still
\* queued) are as many as the visited states.
C9_Terminates ==
    /\ <>(pc = "done")
    /\ [](pc = "loop" =>
            action_iterator + QueueSize(frontier) = Cardinality(visited))

\* The loop ended by emptying the frontier after five iterations.
C9_Witness ==
    /\ pc = "done"
    /\ search_result.kind = "nullopt"
    /\ action_iterator >= 5
    /\ QueueEmpty(frontier)

----------------------------------------------------------------------------
(* build_feasible_movement_graphs (domain_transition_graph.cc).  A         *)
(* FeasibleMovementGraph is a function from its nodes (positions) to the   *)
(* sets of their end positions; a Transition is a record; the builder's    *)
(* data is D = [graphs, frontier, dependent_transitions].                  *)

Transition(object_id, start_position, end_position) ==
    [object_id |-> object_id, start_position |-> start_position,
     end_position |-> end_position]

\* (*object_graph)[position]: the node is created if it is absent.
TouchNode(graph, position) ==
    IF position \in DOMAIN graph THEN graph ELSE (position :> {}) @@ graph

HasEdge(graph, start_position, end_position) ==
    /\ start_position \in DOMAIN graph
    /\ end_position \in graph[start_position]

DependentsOf_None(deps, transition) == <<>>

\* dependent_transitions[transition], read
DependentsOf(deps, transition) ==
    IF transition \in DOMAIN deps THEN deps[transition] ELSE <<>>

\* dependent_transitions[pusher_transition] = {transition}
AddDependent_Overwrite(deps, pusher_transition, transition) ==
    (pusher_transition :> <<transition>>) @@ deps

\* dependent_transitions[pusher_transition].push_back(transition)
AddDependent(deps, pusher_transition, transition) ==
    IF pusher_transition \in DOMAIN deps
    THEN [deps EXCEPT ![pusher_transition] = Append(@, transition)]
    ELSE (pusher_transition :> <<transition>>) @@ deps

\* dependent_transitions.erase(transition)
EraseDependents(deps, transition) ==
    [t \in DOMAIN deps \ {transition} |-> deps[t]]

\* add_transition that puts the end position on the frontier whether or not
\* it is a node already
add_transition_Readd(transition, D) ==
    [D EXCEPT !.graphs[transition.object_id] =
                  [TouchNode(TouchNode(@, transition.start_position),
                             transition.end_position)
                      EXCEPT ![transition.start_position] = @ \cup {transition.end_position}],
              !.frontier = @ \cup {<<transition.object_id, transition.end_position>>}]

RECURSIVE add_transition(_, _)
RECURSIVE NotifyDependents(_, _, _)

\* The for loop of add_transition over the dependents of a transition.
NotifyDependents(dependents, k, D) ==
    IF k > Len(dependents) THEN D
    ELSE NotifyDependents(dependents, k + 1, add_transition(dependents[k], D))

add_transition(transition, D) ==
    LET id == transition.object_id
        touched == TouchNode(D.graphs[id], transition.start_position)
    IN IF transition.end_position \in touched[transition.start_position]
       THEN [D EXCEPT !.graphs[id] = touched]
       ELSE
         LET D1 == [D EXCEPT !.graphs[id] =
                       [touched EXCEPT ![transition.start_position] =
                           @ \cup {transition.end_position}]]
             D2 == NotifyDependents(DependentsOf(D1.dependent_transitions, transition),
                                    1, D1)
             D3 == [D2 EXCEPT !.dependent_transitions = EraseDependents(@, transition)]
         IN IF transition.end_position \in DOMAIN D3.graphs[id]
            THEN D3
            ELSE [D3 EXCEPT !.frontier = @ \cup {<<id, transition.end_position>>},
                            !.graphs[id] = TouchNode(@, transition.end_position)]

\* The elements of a set of positions in one of the orders in which an
\* unordered_set may be iterated.
RECURSIVE DescendingSeq(_)
DescendingSeq(S) ==
    IF S = {} THEN <<>> ELSE <<Max(S)>> \o DescendingSeq(S \ {Max(S)})

IterationOrder(S, reversed) ==
    IF reversed THEN DescendingSeq(S) ELSE SortedSeq(S)

\* The pairs <<pusher_id, relative_position>> in the order in which the two
\* nested loops over the pushers of an object visit them.
RECURSIVE PusherCandidates(_, _, _, _, _)
PusherCandidates(puz, action, object_id, pusher_id, reversed) ==
    IF pusher_id >= puz.m_num_objects THEN <<>>
    ELSE IF pusher_id = object_id
    THEN PusherCandidates(puz, action, object_id, pusher_id + 1, reversed)
    ELSE LET rels == IterationOrder(
                         puz.dynamic_collisions[action][pusher_id][object_id], reversed)
         IN [k \in 1 .. Len(rels) |-> <<pusher_id, rels[k]>>]
                \o PusherCandidates(puz, action, object_id, pusher_id + 1, reversed)

\* The two loops over the pushers: record the object's transition as a
\* dependent of each pusher transition not yet in the pusher's graph; at
\* the first one that is, add the object's transition and leave both loops.
RECURSIVE ScanPushers(_, _, _, _, _, _)
ScanPushers(cands, k, transition, position, displacement, D) ==
    IF k > Len(cands) THEN D
    ELSE LET pusher_id == cands[k][1]
             start_position == position + cands[k][2]
             end_position == start_position + displacement
         IN IF ~HasEdge(D.graphs[pusher_id], start_position, end_position)
            THEN ScanPushers(cands, k + 1, transition, position, displacement,
                     [D EXCEPT !.dependent_transitions =
                         AddDependent(@, Transition(pusher_id, start_position, end_position),
                                      transition)])
            ELSE add_transition(transition, D)

\* The for loop over the actions for the frontier entry (object_id, position).
RECURSIVE ExpandEntry(_, _, _, _, _, _)
ExpandEntry(puz, object_id, position, action, reversed, D) ==
    IF action >= NUM_ACTIONS THEN D
    ELSE IF position \in puz.static_collisions[action][object_id]
    THEN ExpandEntry(puz, object_id, position, action + 1, reversed, D)
    ELSE LET displacement == ACTION_DISPLACEMENTS[action]
             transition == Transition(object_id, position, position + displacement)
         IN ExpandEntry(puz, object_id, position, action + 1, reversed,
                IF object_id = AGENT
                THEN add_transition(transition, D)
                ELSE ScanPushers(PusherCandidates(puz, action, object_id, 0, reversed),
                                 1, transition, position, displacement, D))

\* The builder's data without the initial nodes: empty graphs.
InitialBuilderData_NoNodes(puz) ==
    [graphs |-> [i \in 0 .. puz.m_num_objects - 1 |-> <<>>],
     frontier |-> {<<i, puz.m_initial_state[i]>> : i \in 0 .. puz.m_num_objects - 1},
     dependent_transitions |-> <<>>]

\* The builder's data when it reaches its while loop: one graph per object
\* with a node at the object's initial position, all of them on the frontier.
InitialBuilderData(puz) ==
    [graphs |-> [i \in 0 .. puz.m_num_objects - 1 |-> (puz.m_initial_state[i] :> {})],
     frontier |-> {<<i, puz.m_initial_state[i]>> : i \in 0 .. puz.m_num_objects - 1},
     dependent_transitions |-> <<>>]

\* The while loop as one run, for the callers that only use the result:
\* frontier.begin() is taken to be the least entry.
RECURSIVE BuildLoop(_, _)
BuildLoop(puz, D) ==
    IF D.frontier = {} THEN D.graphs
    ELSE LET entry == CHOOSE e \in D.frontier :
                          \A f \in D.frontier :
                              e[1] < f[1] \/ (e[1] = f[1] /\ e[2] <= f[2])
         IN BuildLoop(puz, ExpandEntry(puz, entry[1], entry[2], 0, FALSE,
                               [D EXCEPT !.frontier = @ \ {entry}]))

build_feasible_movement_graphs(puz) == BuildLoop(puz, InitialBuilderData(puz))

BuilderData ==
    [graphs |-> graphs, frontier |-> dtg_frontier,
     dependent_transitions |-> dependent_transitions]

\* The builder of the model runs on the puzzles whose graphs can have at
\* most this many nodes in all (objects times cells of the grid).
MaxGraphNodes == 18

DTGPuzzleIds ==
    {p \in PuzzleIds :
        Puzzles[p].m_num_objects * Cardinality(GridPoints(Puzzles[p])) <= MaxGraphNodes}

DTGInit ==
    /\ m_puzzle \in DTGPuzzleIds
    /\ m_pushing_frontier = init_pushing_frontier(Puzzles[m_puzzle])
    /\ m_pushed_object_idxs = init_pushed_object_idxs(Puzzles[m_puzzle])
    /\ m_pushed_objects = init_pushed_objects(Puzzles[m_puzzle])
    /\ pc = "build"
    /\ state = Puzzles[m_puzzle].m_initial_state
    /\ last_call = <<>>
    /\ last_goal_check = <<>>
    /\ visited = {}
    /\ frontier = <<>>
    /\ action_iterator = 0
    /\ search_result = <<>>
    /\ graphs = <<>>
    /\ dtg_frontier = {}
    /\ dependent_transitions = <<>>
    /\ NoHeuristic
    /\ AuxIdle
    /\ ExtIdle

\* From the entry of build_feasible_movement_graphs to its while loop.
DTGBegin ==
    /\ pc = "build"
    /\ graphs' = InitialBuilderData(Puz).graphs
    /\ dtg_frontier' = InitialBuilderData(Puz).frontier
    /\ dependent_transitions' = InitialBuilderData(Puz).dependent_transitions
    /\ pc' = "expand"
    /\ UNCHANGED <<ext_vars, puzzle_vars, state, last_call, last_goal_check, search_vars, rgd_vars, aux_vars>>

\* One iteration of the while loop: frontier.begin() is some entry of the
\* unordered_set.
DTGExpand ==
    /\ pc = "expand"
    /\ dtg_frontier # {}
    /\ \E entry \in dtg_frontier, reversed \in BOOLEAN :
          LET D == ExpandEntry(Puz, entry[1], entry[2], 0, reversed,
                       [BuilderData EXCEPT !.frontier = @ \ {entry}])
          IN /\ graphs' = D.graphs
             /\ dtg_frontier' = D.frontier
             /\ dependent_transitions' = D.dependent_transitions
    /\ UNCHANGED <<ext_vars, puzzle_vars, pc, state, last_call, last_goal_check, search_vars, rgd_vars, aux_vars>>

\* return graphs
DTGReturn ==
    /\ pc = "expand"
    /\ dtg_frontier = {}
    /\ pc' = "built"
    /\ UNCHANGED <<ext_vars, puzzle_vars, state, last_call, last_goal_check, search_vars, dtg_vars, rgd_vars, aux_vars>>

DTGNext == DTGBegin \/ DTGExpand \/ DTGReturn

SpecDTG == DTGInit /\ [][DTGNext]_vars

----------------------------------------------------------------------------
(* SingleSourcePathDistances and PathDistances (domain_transition_graph.cc) *)
(* A float cost is an integer, Infinity, -Infinity or NaN; the finite costs  *)
(* of the model are small integers, which float arithmetic keeps exact.     *)

\* The float that is not a number, as a number below every other one, so
\* that it is never taken for a cost.
NaN == -(Infinity + Infinity)

\* float operator+
CostAdd(x, y) ==
    IF x = NaN \/ y = NaN \/ {x, y} = {Infinity, -Infinity} THEN NaN
    ELSE IF x = Infinity \/ y = Infinity THEN Infinity
    ELSE IF x = -Infinity \/ y = -Infinity THEN -Infinity
    ELSE x + y

CostSub_Swapped(x, y) == CostAdd(y, IF x = NaN THEN NaN ELSE -x)

\* float operator-
CostSub(x, y) == CostAdd(x, IF y = NaN THEN NaN ELSE -y)

reverseGraph_Forward(graph) ==
    LET nodes == DOMAIN graph \cup UNION {graph[q] : q \in DOMAIN graph}
    IN [q \in nodes |-> IF q \in DOMAIN graph THEN graph[q] ELSE {}]

\* reverseGraph
reverseGraph(graph) ==
    LET nodes == DOMAIN graph \cup UNION {graph[q] : q \in DOMAIN graph}
    IN [q \in nodes |-> {r \in DOMAIN graph : q \in graph[r]}]

\* SingleSourcePathDistances(graph, start); m_graph is kept once, by the
\* PathDistances that owns the object.  m_frontier is kept as the set of its
\* entries: the loops over it and over the edges only test membership.
NewSingleSource(start) ==
    [m_frontier_depth |-> 0, m_frontier |-> {start}, m_distances |-> (start :> 0)]

\* The while loop of SingleSourcePathDistances::getDistance.
RECURSIVE ExpandDepths(_, _, _)

\* The loop that returns at the target, before the rest of its depth is
\* recorded.
ExpandDepths_StopAtTarget(m_graph, ss, target) ==
    IF ss.m_frontier = {} THEN [value |-> Infinity, ss |-> ss]
    ELSE LET depth == ss.m_frontier_depth + 1
             next_frontier == UNION {m_graph[position] : position \in ss.m_frontier}
                                  \ DOMAIN ss.m_distances
         IN IF target \in next_frontier
            THEN [value |-> depth,
                  ss |-> [m_frontier_depth |-> depth, m_frontier |-> {target},
                          m_distances |-> (target :> depth) @@ ss.m_distances]]
            ELSE ExpandDepths(m_graph,
                     [m_frontier_depth |-> depth, m_frontier |-> next_frontier,
                      m_distances |-> [q \in next_frontier |-> depth] @@ ss.m_distances],
                     target)

ExpandDepths(m_graph, ss, target) ==
    IF ss.m_frontier = {} THEN [value |-> Infinity, ss |-> ss]
    ELSE LET depth == ss.m_frontier_depth + 1
             next_frontier == UNION {m_graph[position] : position \in ss.m_frontier}
                                  \ DOMAIN ss.m_distances
             next == [m_frontier_depth |-> depth,
                      m_frontier |-> next_frontier,
                      m_distances |-> [q \in next_frontier |-> depth] @@ ss.m_distances]
         IN IF target \in next_frontier
            THEN [value |-> depth, ss |-> next]
            ELSE ExpandDepths(m_graph, next, target)

\* SingleSourcePathDistances::getDistance(target): the value and the object
\* as the call leaves it.
SingleSourceGetDistance(m_graph, ss, target) ==
    IF target \in DOMAIN ss.m_distances
    THEN [value |-> ss.m_distances[target], ss |-> ss]
    ELSE ExpandDepths(m_graph, ss, target)

\* PathDistances(graph)
NewPathDistances(graph) ==
    [m_graph |-> reverseGraph(graph),
     m_distances |-> [q \in DOMAIN reverseGraph(graph) |-> NewSingleSource(q)]]

\* The PathDistances object after the call r of getDistance on the
\* SingleSourcePathDistances of `target`.
AfterSingleSource(pd, target, r) ==
    [value |-> r.value, pd |-> [pd EXCEPT !.m_distances[target] = r.ss]]

\* PathDistances::getDistance(source, target): the value and the object as
\* the call leaves it.
PathGetDistance(pd, source, target) ==
    IF target \notin DOMAIN pd.m_distances
    THEN [value |-> Infinity, pd |-> pd]
    ELSE AfterSingleSource(pd, target,
             SingleSourceGetDistance(pd.m_graph, pd.m_distances[target], source))

----------------------------------------------------------------------------
(* RecursiveGraphDistanceHeuristic (recursive_graph_distance.cc).  Every   *)
(* method takes c = [puz, graphs, reversed], what it reads (m_puzzle,      *)
(* m_movement_graphs, and the order in which the unordered containers are  *)
(* iterated), and H = [pd, cache], what it may write (m_path_distances,    *)
(* m_pushing_cost_cache), and returns its value with H as it leaves it.    *)
(* A loop carries its running value and H in one record, acc.              *)

\* DISPLACEMENTS_TO_ACTIONS.at(displacement)
DisplacementToAction(displacement) ==
    CHOOSE action \in Actions : ACTION_DISPLACEMENTS[action] = displacement

\* The update of `costs` at the end of the inner loop of get_pushing_costs.
KeepBest(costs, position, distance_cost) ==
    IF position \notin DOMAIN costs THEN (position :> distance_cost) @@ costs
    ELSE IF distance_cost < costs[position]
    THEN [costs EXCEPT ![position] = distance_cost]
    ELSE costs

KeepDistance_NoTransitionCost(acc, pusher_id, pusher_next_position, d) ==
    [costs |-> IF d.value = Infinity THEN acc.costs
               ELSE KeepBest(acc.costs, pusher_next_position, d.value),
     H |-> [acc.H EXCEPT !.pd[pusher_id] = d.pd]]

\* The body of the inner loop when the push is not simultaneous; d is the
\* call of getDistance(pusher_next_position, pushing_start_position).
KeepDistance(acc, pusher_id, pusher_next_position, d) ==
    [costs |-> IF d.value = Infinity THEN acc.costs
               ELSE KeepBest(acc.costs, pusher_next_position, d.value + 1),
     H |-> [acc.H EXCEPT !.pd[pusher_id] = d.pd]]

\* The loop of get_pushing_costs over pusher_next_positions; acc = [costs, H].
RECURSIVE NextPositionsLoop(_, _, _, _, _, _, _)
NextPositionsLoop(acc, pusher_id, pusher_position, pushing_start_position, pushing_end_position, nexts, j) ==
    IF j > Len(nexts) THEN acc
    ELSE NextPositionsLoop(
             IF pushing_start_position = pusher_position /\ pushing_end_position = nexts[j]
             THEN [acc EXCEPT !.costs = KeepBest(@, nexts[j], 0)]
             ELSE KeepDistance(acc, pusher_id, nexts[j],
                      PathGetDistance(acc.H.pd[pusher_id], nexts[j], pushing_start_position)),
             pusher_id, pusher_position, pushing_start_position, pushing_end_position,
             nexts, j + 1)

\* The loop of get_pushing_costs over relative_positions; acc = [costs, H].
RECURSIVE RelativePositionsLoop(_, _, _, _, _, _, _, _, _)
RelativePositionsLoop(c, acc, pusher_id, pusher_position, pushee_start_position, displacement, rels, k, nexts) ==
    IF k > Len(rels) THEN acc
    ELSE RelativePositionsLoop(c,
             IF HasEdge(c.graphs[pusher_id], pushee_start_position + rels[k],
                        pushee_start_position + rels[k] + displacement)
             THEN NextPositionsLoop(acc, pusher_id, pusher_position,
                      pushee_start_position + rels[k],
                      pushee_start_position + rels[k] + displacement, nexts, 1)
             ELSE acc,
             pusher_id, pusher_position, pushee_start_position, displacement,
             rels, k + 1, nexts)

CacheCosts_Empty(args, r) ==
    [costs |-> r.costs, H |-> [r.H EXCEPT !.cache = (args :> <<>>) @@ @]]

\* "Cache the result": m_pushing_cost_cache[args] = costs
CacheCosts(args, r) ==
    [costs |-> r.costs, H |-> [r.H EXCEPT !.cache = (args :> r.costs) @@ @]]

get_pushing_costs(c, H, pusher_id, pusher_position, pushee_id, pushee_start_position, pushee_end_position) ==
    LET args == <<pusher_id, pusher_position, pushee_id,
                  pushee_start_position, pushee_end_position>>
        displacement == pushee_end_position - pushee_start_position
        action == DisplacementToAction(displacement)
    IN IF args \in DOMAIN H.cache
       THEN [costs |-> H.cache[args], H |-> H]
       ELSE CacheCosts(args,
                RelativePositionsLoop(c, [costs |-> <<>>, H |-> H], pusher_id,
                    pusher_position, pushee_start_position, displacement,
                    IterationOrder(
                        c.puz.dynamic_collisions[action][pusher_id][pushee_id],
                        c.reversed),
                    1,
                    IterationOrder(c.graphs[pusher_id][pusher_position], c.reversed)))

\* start_pusher_id
FirstPusher(pushing_depth) == IF pushing_depth = 0 THEN 0 ELSE 1

\* end_pusher_id
EndPusher(num_objects, pushing_depth) ==
    IF pushing_depth = 0 THEN 1 ELSE num_objects

\* cost + r.value, with the H of r
AddCost(cost, r) == [value |-> CostAdd(cost, r.value), H |-> r.H]

RECURSIVE get_recursive_pushing_cost(_, _, _, _, _, _, _, _, _)
RECURSIVE PushersLoop(_, _, _, _, _, _, _, _, _)
RECURSIVE CostPairsLoop(_, _, _, _, _, _, _, _, _)

\* The loop of get_recursive_pushing_cost over the pairs of *pushing_costs;
\* acc = [value, H] with value = min_cost.
CostPairsLoop(c, acc, s, pusher_id, costs, pairs, k, next_skipped_object_ids, pushing_depth) ==
    IF k > Len(pairs) THEN acc
    ELSE CostPairsLoop(c,
             IF costs[pairs[k]] >= acc.value THEN acc
             ELSE IF pusher_id = AGENT
             THEN [acc EXCEPT !.value = Min({@, costs[pairs[k]] + 1})]
             ELSE AddCost(costs[pairs[k]],
                      get_recursive_pushing_cost(c, acc.H, s, pusher_id, s[pusher_id],
                          pairs[k], next_skipped_object_ids, pushing_depth - 1,
                          CostSub(acc.value, costs[pairs[k]]))),
             s, pusher_id, costs, pairs, k + 1, next_skipped_object_ids, pushing_depth)

\* The loop over the pairs of the map that get_pushing_costs returned.
OverPushingCosts(c, min_cost, s, pusher_id, pushing_costs, next_skipped_object_ids, pushing_depth) ==
    CostPairsLoop(c, [value |-> min_cost, H |-> pushing_costs.H], s, pusher_id,
                  pushing_costs.costs,
                  IterationOrder(DOMAIN pushing_costs.costs, c.reversed), 1,
                  next_skipped_object_ids, pushing_depth)

\* The loop of get_recursive_pushing_cost over pusher_id; acc = [value, H].
PushersLoop(c, acc, s, object_id, current_position, effect_position, next_skipped_object_ids, pushing_depth, pusher_id) ==
    IF pusher_id >= EndPusher(c.puz.m_num_objects, pushing_depth) THEN acc
    ELSE PushersLoop(c,
             IF pusher_id \in next_skipped_object_ids THEN acc
             ELSE OverPushingCosts(c, acc.value, s, pusher_id,
                      get_pushing_costs(c, acc.H, pusher_id, s[pusher_id], object_id,
                                        current_position, effect_position),
                      next_skipped_object_ids, pushing_depth),
             s, object_id, current_position, effect_position,
             next_skipped_object_ids, pushing_depth, pusher_id + 1)

get_recursive_pushing_cost(c, H, s, object_id, current_position, effect_position, skipped_object_ids, pushing_depth, cost_upper_bound) ==
    PushersLoop(c, [value |-> cost_upper_bound, H |-> H], s, object_id,
                current_position, effect_position,
                skipped_object_ids \cup {object_id}, pushing_depth,
                FirstPusher(pushing_depth))

\* The body of the loop of get_goal_cost; d is the call of
\* getDistance(effect_position, goal_position).
EffectCost(c, acc, s, object_id, effect_position, pushing_depth, d) ==
    IF d.value >= acc.value
    THEN [value |-> acc.value, H |-> [acc.H EXCEPT !.pd[object_id] = d.pd]]
    ELSE AddCost(d.value,
             get_recursive_pushing_cost(c, [acc.H EXCEPT !.pd[object_id] = d.pd], s,
                 object_id, s[object_id], effect_position, {}, pushing_depth,
                 CostSub(acc.value, d.value)))

\* The loop of get_goal_cost over the effect positions; acc = [value, H].
RECURSIVE EffectsLoop(_, _, _, _, _, _, _, _)
EffectsLoop(c, acc, s, object_id, goal_position, pushing_depth, effects, k) ==
    IF k > Len(effects) THEN acc
    ELSE EffectsLoop(c,
             EffectCost(c, acc, s, object_id, effects[k], pushing_depth,
                 PathGetDistance(acc.H.pd[object_id], effects[k], goal_position)),
             s, object_id, goal_position, pushing_depth, effects, k + 1)

\* get_goal_cost without the return for an object at its goal position
get_goal_cost_NoShortcut(c, H, s, object_id, goal_position, pushing_depth) ==
    EffectsLoop(c, [value |-> Infinity, H |-> H], s, object_id, goal_position,
                pushing_depth,
                IterationOrder(c.graphs[object_id][s[object_id]], c.reversed), 1)

get_goal_cost(c, H, s, object_id, goal_position, pushing_depth) ==
    IF goal_position = s[object_id] THEN [value |-> 0, H |-> H]
    ELSE EffectsLoop(c, [value |-> Infinity, H |-> H], s, object_id, goal_position,
                     pushing_depth,
                     IterationOrder(c.graphs[object_id][s[object_id]], c.reversed), 1)

RECURSIVE FewestToolsLoop(_, _, _, _, _, _)

FewestToolsNext_DepthZeroOnly(c, r, s, object_id, goal_position, pushing_depth) == r

\* The body of the loop of get_fewest_tools_goal_cost; r is the call of
\* get_goal_cost at pushing_depth.
FewestToolsNext(c, r, s, object_id, goal_position, pushing_depth) ==
    IF r.value # Infinity THEN r
    ELSE FewestToolsLoop(c, r.H, s, object_id, goal_position, pushing_depth + 1)

\* The loop of get_fewest_tools_goal_cost over pushing_depth.
FewestToolsLoop(c, H, s, object_id, goal_position, pushing_depth) ==
    IF pushing_depth >= c.puz.m_num_objects - 1
    THEN [value |-> Infinity, H |-> H]
    ELSE FewestToolsNext(c,
             get_goal_cost(c, H, s, object_id, goal_position, pushing_depth),
             s, object_id, goal_position, pushing_depth)

get_fewest_tools_goal_cost(c, H, s, object_id, goal_position) ==
    FewestToolsLoop(c, H, s, object_id, goal_position, 0)

RECURSIVE GoalsLoop(_, _, _, _, _)

\* `cost += ...` and the break on an infinite cost; r is the goal cost.
GoalsNext(c, fewest_tools, s, i, r) ==
    IF r.value = Infinity THEN r
    ELSE GoalsLoop(c, r, fewest_tools, s, i + 1)

\* The loop of estimate_cost_to_goal over the goal entries; i is the index
\* of the entry, i + 1 the object_id after `object_id++`; acc = [value, H]
\* with value = cost.
GoalsLoop(c, acc, fewest_tools, s, i) ==
    IF i >= GoalSize(c.puz) THEN acc
    ELSE GoalsNext(c, fewest_tools, s, i,
             AddCost(acc.value,
                 IF fewest_tools
                 THEN get_fewest_tools_goal_cost(c, acc.H, s, i + 1, c.puz.m_goal[i])
                 ELSE get_goal_cost(c, acc.H, s, i + 1, c.puz.m_goal[i],
                                    c.puz.m_num_objects - 2)))

estimate_cost_to_goal(c, H, fewest_tools, s) ==
    GoalsLoop(c, [value |-> 0, H |-> H], fewest_tools, s, 0)

----------------------------------------------------------------------------
(* SpecRGD: a caller constructs the heuristic for a puzzle and then, from  *)
(* the initial state, performs actions and asks for the estimated cost of  *)
(* the state it holds, in any order.                                       *)

HeuristicData == [pd |-> m_path_distances, cache |-> m_pushing_cost_cache]

MaxHeuristicNodes == 24

\* The puzzles a heuristic is constructed for: the movement graphs of all
\* objects together have at most MaxHeuristicNodes positions.
RGDPuzzleIds ==
    {p \in PuzzleIds :
        Puzzles[p].m_num_objects * Cardinality(GridPoints(Puzzles[p])) <= MaxHeuristicNodes}

RGDInit ==
    /\ m_puzzle \in RGDPuzzleIds
    /\ m_pushing_frontier = init_pushing_frontier(Puzzles[m_puzzle])
    /\ m_pushed_object_idxs = init_pushed_object_idxs(Puzzles[m_puzzle])
    /\ m_pushed_objects = init_pushed_objects(Puzzles[m_puzzle])
    /\ pc = "construct"
    /\ state = Puzzles[m_puzzle].m_initial_state
    /\ last_call = <<>>
    /\ last_goal_check = <<>>
    /\ visited = {}
    /\ frontier = <<>>
    /\ action_iterator = 0
    /\ search_result = <<>>
    /\ graphs = <<>>
    /\ dtg_frontier = {}
    /\ dependent_transitions = <<>>
    /\ NoHeuristic
    /\ AuxIdle
    /\ ExtIdle

\* RecursiveGraphDistanceHeuristic(puzzle, fewest_tools)
RGDConstruct ==
    /\ pc = "construct"
    /\ \E fewest_tools \in BOOLEAN, movement_graphs \in {build_feasible_movement_graphs(Puz)} :
             /\ m_fewest_tools' = fewest_tools
             /\ m_movement_graphs' = movement_graphs
             /\ m_path_distances' =
                    [id \in DOMAIN movement_graphs |-> NewPathDistances(movement_graphs[id])]
             /\ m_pushing_cost_cache' = <<>>
    /\ pc' = "ready"
    /\ UNCHANGED <<ext_vars, puzzle_vars, state, last_call, last_goal_check, search_vars,
                   dtg_vars, last_estimate, aux_vars>>

\* estimate_cost_to_goal(state)
RGDEstimate ==
    /\ pc = "ready"
    /\ \E reversed \in BOOLEAN :
          \E r \in {estimate_cost_to_goal(
                       [puz |-> Puz, graphs |-> m_movement_graphs, reversed |-> reversed],
                       HeuristicData, m_fewest_tools, state)} :
             /\ m_path_distances' = r.H.pd
             /\ m_pushing_cost_cache' = r.H.cache
             /\ last_estimate' = << [state |-> state, cost |-> r.value,
                                     cached |-> Cardinality(DOMAIN m_pushing_cost_cache)] >>
    /\ UNCHANGED <<ext_vars, puzzle_vars, pc, state, last_call, last_goal_check, search_vars,
                   dtg_vars, m_fewest_tools, m_movement_graphs, aux_vars>>

\* The caller performs an action on the state it holds.
RGDMove(action) ==
    /\ pc = "ready"
    /\ LET r == getNextState(Puz, Scratch, state, action)
       IN /\ m_pushing_frontier' = r.scratch.frontier
          /\ m_pushed_object_idxs' = r.scratch.idxs
          /\ m_pushed_objects' = r.scratch.pushed
          /\ state' = r.state
    /\ UNCHANGED <<ext_vars, m_puzzle, pc, last_call, last_goal_check, search_vars,
                   dtg_vars, rgd_vars, aux_vars>>

RGDNext ==
    \/ RGDConstruct
    \/ RGDEstimate
    \/ \E action \in Actions : RGDMove(action)

SpecRGD == RGDInit /\ [][RGDNext]_vars

----------------------------------------------------------------------------
(* Properties of build_feasible_movement_graphs, under SpecDTG *)

\* C6: for every state reachable from the initial state and every action,
\* each object that getNextState moves from p to p' has the edge p -> p' in
\* its graph among the graphs build_feasible_movement_graphs returns.
C6_FeasibilitySoundness ==
    pc = "built" =>
        \A s \in ReachableStates[m_puzzle], action \in Actions :
            LET r == getNextState(Puz, FreshScratch(Puz), s, action)
            IN \A k \in DOMAIN r.moved_object_indices :
                  LET i == r.moved_object_indices[k]
                  IN HasEdge(graphs[i], s[i], r.state[i])

\* The graphs were returned for a puzzle in which some reachable move
\* displaces the agent and two objects, one pushed by the other.
C6_Witness ==
    /\ pc = "built"
    /\ \E s \in ReachableStates[m_puzzle], action \in Actions :
          Len(getNextState(Puz, FreshScratch(Puz), s, action).moved_object_indices) >= 3

----------------------------------------------------------------------------
(* Properties of RecursiveGraphDistanceHeuristic, under SpecRGD *)

\* The states one action away from each reachable state.
Successors == [p \in PuzzleIds |->
    [s \in ReachableStates[p] |-> {Step(Puzzles[p], s, action) : action \in Actions}]]

\* The least set of reachable states that holds S and every state with a
\* successor in it.
RECURSIVE CanReach(_, _)
CanReach(p, S) ==
    IF \A s \in ReachableStates[p] : Successors[p][s] \cap S # {} => s \in S
    THEN S
    ELSE CanReach(p, S \cup {s \in ReachableStates[p] : Successors[p][s] \cap S # {}})

\* The reachable states of a puzzle from which some sequence of actions
\* reaches a state that satisfies the goal.
SolvableStates == [p \in PuzzleIds |->
    CanReach(p, {s \in ReachableStates[p] : satisfiesGoal(Puzzles[p], s)})]

\* C7: for every state reachable from the initial state, if
\* estimate_cost_to_goal returns infinity, with fewest_tools true or false,
\* then no sequence of actions from that state reaches a state that
\* satisfies the goal.
C7_InfiniteCostMeansNoSolution ==
    \A k \in DOMAIN last_estimate :
        last_estimate[k].cost = Infinity
            => last_estimate[k].state \notin SolvableStates[m_puzzle]

\* C7, for the heuristics constructed with fewest_tools = true only.
C7_FewestToolsInfiniteCostMeansNoSolution ==
    \A k \in DOMAIN last_estimate :
        (m_fewest_tools /\ last_estimate[k].cost = Infinity)
            => last_estimate[k].state \notin SolvableStates[m_puzzle]

----------------------------------------------------------------------------
(* xy_to_position and position_to_xy (pushworld_puzzle.cc), under          *)
(* SpecPosition: a caller encodes coordinates, adds encoded positions and  *)
(* displacements, and decodes the result.  The operands are the            *)
(* coordinates within MaxCoordOffset of either end of the valid range and  *)
(* their negations; every value stays far inside the range of an int.      *)

\* The `/` of C++ on ints: the quotient truncated towards zero.
IntDiv(p, q) == IF p >= 0 THEN p \div q ELSE -((-p) \div q)

\* The `%` of C++ on ints: the remainder with the sign of the dividend.
IntRem(p, q) == p - q * IntDiv(p, q)

position_to_xy_NoRemainder(p) == <<IntDiv(p, POSITION_LIMIT), p>>

\* position_to_xy(p, x, y), as the pair <<x, y>> it writes
position_to_xy(p) == <<IntDiv(p, POSITION_LIMIT), IntRem(p, POSITION_LIMIT)>>

MaxCoordOffset == 1

Coordinates ==
    (0 .. MaxCoordOffset) \cup ((POSITION_LIMIT - 1 - MaxCoordOffset) .. (POSITION_LIMIT - 1))

Operands == Coordinates \cup {-v : v \in Coordinates}

ValidCoordinate(v) == 0 <= v /\ v < POSITION_LIMIT

PositionInit ==
    /\ m_puzzle = 0
    /\ m_pushing_frontier = <<>>
    /\ m_pushed_object_idxs = <<>>
    /\ m_pushed_objects = <<>>
    /\ pc = "position"
    /\ state = <<>>
    /\ last_call = <<>>
    /\ last_goal_check = <<>>
    /\ visited = {}
    /\ frontier = <<>>
    /\ action_iterator = 0
    /\ search_result = <<>>
    /\ graphs = <<>>
    /\ dtg_frontier = {}
    /\ dependent_transitions = <<>>
    /\ NoHeuristic
    /\ AuxIdle
    /\ ExtIdle

\* position_to_xy(xy_to_position(x, y), x, y)
PositionRoundTrip ==
    /\ pc = "position"
    /\ \E x \in Operands, y \in Operands :
          last_conversion' = << [op |-> "round_trip", x |-> x, y |-> y,
                                 position |-> xy_to_position(x, y),
                                 decoded |-> position_to_xy(xy_to_position(x, y))] >>
    /\ pc' = "decoded"
    /\ UNCHANGED <<ext_vars, puzzle_vars, state, last_call, last_goal_check, search_vars,
                   dtg_vars, rgd_vars, path_vars, novelty_vars>>

\* position_to_xy(xy_to_position(a, b) + xy_to_position(c, d), x, y)
PositionAdd ==
    /\ pc = "position"
    /\ \E a \in Operands, b \in Operands, c \in Operands, d \in Operands :
          last_conversion' = << [op |-> "add", a |-> a, b |-> b, c |-> c, d |-> d,
                                 position |-> xy_to_position(a, b) + xy_to_position(c, d),
                                 decoded |-> position_to_xy(
                                     xy_to_position(a, b) + xy_to_position(c, d))] >>
    /\ pc' = "decoded"
    /\ UNCHANGED <<ext_vars, puzzle_vars, state, last_call, last_goal_check, search_vars,
                   dtg_vars, rgd_vars, path_vars, novelty_vars>>

PositionNext == PositionRoundTrip \/ PositionAdd

SpecPosition == PositionInit /\ [][PositionNext]_vars

\* C11: decoding the encoding of valid coordinates (x, y) gives (x, y) back;
\* the sum of two encodings is the encoding of the coordinate-wise sum, also
\* when an operand is negative, and it decodes to that sum whenever both of
\* its coordinates are valid.
C11_PositionRoundTrip ==
    \A k \in DOMAIN last_conversion :
        LET r == last_conversion[k]
        IN /\ (r.op = "round_trip" /\ ValidCoordinate(r.x) /\ ValidCoordinate(r.y))
                 => r.decoded = <<r.x, r.y>>
           /\ r.op = "add"
                 => /\ r.position = xy_to_position(r.a + r.c, r.b + r.d)
                    /\ (ValidCoordinate(r.a + r.c) /\ ValidCoordinate(r.b + r.d))
                          => r.decoded = <<r.a + r.c, r.b + r.d>>

\* C11 witness: a position and a displacement with both coordinates
\* negative were added and the valid, nonzero result was decoded.
C11_Witness ==
    \E k \in DOMAIN last_conversion :
        LET r == last_conversion[k]
        IN /\ r.op = "add"
           /\ r.c < 0 /\ r.d < 0
           /\ r.a + r.c > 0 /\ r.b + r.d > 0
           /\ ValidCoordinate(r.a + r.c) /\ ValidCoordinate(r.b + r.d)
           /\ r.decoded = <<r.a + r.c, r.b + r.d>>

----------------------------------------------------------------------------
(* PathDistances (domain_transition_graph.cc), under SpecPaths: a caller   *)
(* constructs a PathDistances from a FeasibleMovementGraph and then asks   *)
(* for distances in any order.  The graphs are all the maps from a set of  *)
(* keys within 1..MaxPathNodes to sets of positions within 1..MaxPathNodes; *)
(* the queried positions also include one that no graph holds.             *)

MaxPathNodes == 3

PathPositions == 1 .. MaxPathNodes

PathGraphs == UNION {[keys -> SUBSET PathPositions] : keys \in SUBSET PathPositions}

QueriedPositions == 1 .. (MaxPathNodes + 1)

PathsInit ==
    /\ m_puzzle = 0
    /\ m_pushing_frontier = <<>>
    /\ m_pushed_object_idxs = <<>>
    /\ m_pushed_objects = <<>>
    /\ pc = "paths_new"
    /\ state = <<>>
    /\ last_call = <<>>
    /\ last_goal_check = <<>>
    /\ visited = {}
    /\ frontier = <<>>
    /\ action_iterator = 0
    /\ search_result = <<>>
    /\ graphs = <<>>
    /\ dtg_frontier = {}
    /\ dependent_transitions = <<>>
    /\ NoHeuristic
    /\ last_conversion = <<>>
    /\ path_graph \in PathGraphs
    /\ path_distances = <<>>
    /\ last_distance = <<>>
    /\ NoNovelty
    /\ ExtIdle

\* PathDistances(graph)
PathsConstruct ==
    /\ pc = "paths_new"
    /\ pc' = "paths_ready"
    /\ path_distances' = NewPathDistances(path_graph)
    /\ UNCHANGED <<ext_vars, puzzle_vars, state, last_call, last_goal_check, search_vars,
                   dtg_vars, rgd_vars, last_conversion, path_graph, last_distance,
                   novelty_vars>>

\* getDistance(source, target)
PathsGetDistance ==
    /\ pc = "paths_ready"
    /\ \E source \in QueriedPositions, target \in QueriedPositions :
          \E r \in {PathGetDistance(path_distances, source, target)} :
             /\ path_distances' = r.pd
             /\ last_distance' = << [source |-> source, target |-> target,
                                     value |-> r.value] >>
    /\ UNCHANGED <<ext_vars, puzzle_vars, pc, state, last_call, last_goal_check, search_vars,
                   dtg_vars, rgd_vars, last_conversion, path_graph, novelty_vars>>

PathsNext == PathsConstruct \/ PathsGetDistance

SpecPaths == PathsInit /\ [][PathsNext]_vars

\* The nodes of a FeasibleMovementGraph: its keys and the targets of its edges.
GraphNodes(graph) == DOMAIN graph \cup UNION {graph[q] : q \in DOMAIN graph}

\* The positions that paths of at most n edges of the graph lead to from S.
RECURSIVE WithinEdges(_, _, _)
WithinEdges(graph, S, n) ==
    IF n = 0 THEN S
    ELSE LET R == WithinEdges(graph, S, n - 1)
         IN R \cup UNION {graph[q] : q \in R \cap DOMAIN graph}

\* The number of edges on a shortest directed path of the graph from source
\* to target; Infinity when there is none or one of them is not a node.
ShortestPath(graph, source, target) ==
    LET lengths == {n \in 0 .. Cardinality(GraphNodes(graph)) :
                       target \in WithinEdges(graph, {source}, n)}
    IN IF {source, target} \subseteq GraphNodes(graph) /\ lengths # {}
       THEN Min(lengths)
       ELSE Infinity

\* C12: every call of PathDistances::getDistance(source, target) returns the
\* number of edges on a shortest directed path from source to target in the
\* graph the object was constructed from, and infinity when there is no such
\* path or when source or target is not a node of that graph.
C12_GetDistanceIsShortestPath ==
    \A k \in DOMAIN last_distance :
        last_distance[k].value
            = ShortestPath(path_graph, last_distance[k].source, last_distance[k].target)

\* C12 witness: a call returned 2 for a pair whose opposite direction has no
\* path, on an object whose earlier calls had already searched from that
\* target.
C12_Witness ==
    \E k \in DOMAIN last_distance :
        /\ last_distance[k].value = 2
        /\ ShortestPath(path_graph, last_distance[k].target, last_distance[k].source)
              = Infinity
        /\ path_distances.m_distances[last_distance[k].target].m_frontier_depth > 2

----------------------------------------------------------------------------
(* Properties of the caches of RecursiveGraphDistanceHeuristic, under      *)
(* SpecRGD                                                                 *)

\* m_path_distances and m_pushing_cost_cache as the constructor leaves them.
FreshHeuristicData ==
    [pd |-> [id \in DOMAIN m_movement_graphs |-> NewPathDistances(m_movement_graphs[id])],
     cache |-> <<>>]

\* What a method of the constructed heuristic reads, for an iteration order.
HeuristicContext(reversed) ==
    [puz |-> Puz, graphs |-> m_movement_graphs, reversed |-> reversed]

\* C13: the value estimate_cost_to_goal returned for a state, after any
\* sequence of earlier calls on the instance, is the value a freshly
\* constructed heuristic for the puzzle returns for that state; and every
\* entry of the pushing-cost cache is what get_pushing_costs computes for
\* its key with nothing cached.
C13_CachingKeepsValues ==
    pc = "ready" =>
        \A reversed \in BOOLEAN :
            /\ \A k \in DOMAIN last_estimate :
                  last_estimate[k].cost
                      = estimate_cost_to_goal(HeuristicContext(reversed), FreshHeuristicData,
                                              m_fewest_tools, last_estimate[k].state).value
            /\ \A args \in DOMAIN m_pushing_cost_cache :
                  m_pushing_cost_cache[args]
                      = get_pushing_costs(HeuristicContext(reversed), FreshHeuristicData,
                                          args[1], args[2], args[3], args[4], args[5]).costs

\* C13 witness: a call returned a positive finite cost using only entries
\* that earlier calls had left in the cache.
C13_Witness ==
    \E k \in DOMAIN last_estimate :
        /\ last_estimate[k].cost \notin {0, Infinity}
        /\ last_estimate[k].cached > 0
        /\ last_estimate[k].cached = Cardinality(DOMAIN m_pushing_cost_cache)

\* C14: for the state the caller holds, every goal object and every pair of
\* pushing depths up to n - 2, get_goal_cost at the larger depth is never
\* greater than at the smaller one; and the estimate of a heuristic with
\* fewest_tools = false is never greater than the estimate of one with
\* fewest_tools = true, so it is finite whenever that one is.
C14_DeeperNeverCostsMore ==
    pc = "ready" =>
        \A reversed \in BOOLEAN :
            /\ \A i \in 0 .. (GoalSize(Puz) - 1) :
                  \A shallow \in 0 .. (Puz.m_num_objects - 2) :
                      \A deep \in shallow .. (Puz.m_num_objects - 2) :
                          get_goal_cost(HeuristicContext(reversed), FreshHeuristicData,
                                        state, i + 1, Puz.m_goal[i], deep).value
                            <= get_goal_cost(HeuristicContext(reversed), FreshHeuristicData,
                                             state, i + 1, Puz.m_goal[i], shallow).value
            /\ estimate_cost_to_goal(HeuristicContext(reversed), FreshHeuristicData,
                                     FALSE, state).value
                 <= estimate_cost_to_goal(HeuristicContext(reversed), FreshHeuristicData,
                                          TRUE, state).value

----------------------------------------------------------------------------
(* Properties of the fewest_tools setting, under SpecRGD *)

\* get_goal_cost of a fresh heuristic for the goal entry i of the puzzle.
GoalCostAtDepth(reversed, s, i, pushing_depth) ==
    get_goal_cost(HeuristicContext(reversed), FreshHeuristicData, s, i + 1,
                  Puz.m_goal[i], pushing_depth).value

\* The pushing depths 0..n-2 at which the goal entry i has a finite cost.
FiniteDepths(reversed, s, i) ==
    {d \in 0 .. (Puz.m_num_objects - 2) : GoalCostAtDepth(reversed, s, i, d) # Infinity}

\* The cost at the smallest depth that has a finite one; Infinity if none has.
FewestToolsCost(reversed, s, i) ==
    IF FiniteDepths(reversed, s, i) = {} THEN Infinity
    ELSE GoalCostAtDepth(reversed, s, i, Min(FiniteDepths(reversed, s, i)))

\* The sum of the costs of the goal entries i..GoalSize-1.
RECURSIVE SumFewestToolsCosts(_, _, _)
SumFewestToolsCosts(reversed, s, i) ==
    IF i >= GoalSize(Puz) THEN 0
    ELSE FewestToolsCost(reversed, s, i) + SumFewestToolsCosts(reversed, s, i + 1)

\* C15: with fewest_tools = true the estimate is the sum over the goal
\* objects of get_goal_cost at the smallest pushing depth in 0..n-2 where it
\* is finite, and it is infinity exactly when some goal object has an
\* infinite get_goal_cost at every one of these depths.
C15_FewestToolsTakesSmallestDepth ==
    (pc = "ready" /\ m_fewest_tools) =>
        \A k \in DOMAIN last_estimate : \A reversed \in BOOLEAN :
            last_estimate[k].cost =
                IF \E i \in 0 .. (GoalSize(Puz) - 1) :
                       FiniteDepths(reversed, last_estimate[k].state, i) = {}
                THEN Infinity
                ELSE SumFewestToolsCosts(reversed, last_estimate[k].state, 0)

\* C15 witness: a finite estimate with fewest_tools = true for a state where
\* a goal object has an infinite get_goal_cost at pushing depth 0, so that
\* the cost of a deeper depth was taken.
C15_Witness ==
    /\ pc = "ready"
    /\ m_fewest_tools
    /\ \E k \in DOMAIN last_estimate :
          /\ last_estimate[k].cost # Infinity
          /\ \E i \in 0 .. (GoalSize(Puz) - 1) :
                /\ FiniteDepths(FALSE, last_estimate[k].state, i) # {}
                /\ 0 \notin FiniteDepths(FALSE, last_estimate[k].state, i)

----------------------------------------------------------------------------
(* test_trivial (test_recursive_graph_distance.cc), under SpecRGD *)

\* The states of test_trivial: the initial state of puzzles/trivial.pwp, the
\* state after RIGHT, and the state after RIGHT and UP.
TrivialStates ==
    LET s0 == Trivial.m_initial_state
        s1 == Step(Trivial, s0, RIGHT)
        s2 == Step(Trivial, s1, UP)
    IN <<s0, s1, s2>>

\* The costs test_trivial expects for them.
TrivialCosts == <<2, 3, 4>>

\* C16: on the trivial puzzle a heuristic with the default fewest_tools = true
\* returns 2 for the initial state, 3 for the state after RIGHT and 4 for the
\* state after RIGHT and UP, on the first call and on every repeated one.
C16_TrivialPuzzleCosts ==
    (pc = "ready" /\ Puz = Trivial /\ m_fewest_tools) =>
        \A k \in DOMAIN last_estimate : \A j \in DOMAIN TrivialStates :
            last_estimate[k].state = TrivialStates[j]
                => last_estimate[k].cost = TrivialCosts[j]

\* C16 witness: the heuristic returned 4 for the state after RIGHT and UP on
\* a call that found every pushing cost it needed in the cache.
C16_Witness ==
    /\ pc = "ready"
    /\ Puz = Trivial
    /\ m_fewest_tools
    /\ \E k \in DOMAIN last_estimate :
          /\ last_estimate[k].state = TrivialStates[3]
          /\ last_estimate[k].state # TrivialStates[1]
          /\ last_estimate[k].cost = 4
          /\ last_estimate[k].cached > 0
          /\ last_estimate[k].cached = Cardinality(DOMAIN m_pushing_cost_cache)

----------------------------------------------------------------------------
(* The values of estimate_cost_to_goal, under SpecRGD *)

\* C17: every value estimate_cost_to_goal returns is a non-negative integer
\* below infinity, or infinity itself: never a negative number, minus
\* infinity or NaN.
C17_CostsAreNaturalOrInfinite ==
    pc = "ready" =>
        \A k \in DOMAIN last_estimate :
            /\ last_estimate[k].cost \in Nat
            /\ last_estimate[k].cost <= Infinity

\* C17 witness: a heuristic with fewest_tools = false returned a positive
\* finite cost for a puzzle with a tool, where the cost bound of the
\* recursive call is a difference of costs.
C17_Witness ==
    /\ pc = "ready"
    /\ ~m_fewest_tools
    /\ Puz.m_num_objects > 2
    /\ \E k \in DOMAIN last_estimate :
          /\ last_estimate[k].cost > 0
          /\ last_estimate[k].cost < Infinity

----------------------------------------------------------------------------
(* NoveltyHeuristic (novelty.cc).  N = [novelty, positions, pairs] is the   *)
(* local `novelty` with m_visited_positions and m_visited_position_pairs.  *)
(* A RelativeState is [state, moved_object_indices].                       *)

\* NoveltyHeuristic(state_size): m_visited_positions
NewVisitedPositions(state_size) == [i \in 0 .. state_size - 1 |-> {}]

\* NoveltyHeuristic(state_size): m_visited_position_pairs
NewVisitedPairs(state_size) ==
    [i \in 0 .. state_size - 1 |-> [j \in 0 .. state_size - 1 |-> {}]]

\* m_visited_positions[i] holds the latest position only
InsertPosition_Replace(N, i, p_i) ==
    [N EXCEPT !.positions[i] = {p_i},
              !.novelty = IF p_i \notin N.positions[i] THEN 1 ELSE @]

\* if (m_visited_positions[i].insert(p_i).second) novelty = 1
InsertPosition(N, i, p_i) ==
    [N EXCEPT !.positions[i] = @ \cup {p_i},
              !.novelty = IF p_i \notin N.positions[i] THEN 1 ELSE @]

InsertPair_Overwrite(N, a, b, p) ==
    [N EXCEPT !.pairs[a][b] = @ \cup {p},
              !.novelty = IF p \notin N.pairs[a][b] THEN 2 ELSE @]

\* if (m_visited_position_pairs[a][b].insert(p).second) if (novelty > 2) novelty = 2
InsertPair(N, a, b, p) ==
    [N EXCEPT !.pairs[a][b] = @ \cup {p},
              !.novelty = IF p \notin N.pairs[a][b] /\ @ > 2 THEN 2 ELSE @]

\* for (j = 0; j < i; j++)
RECURSIVE LowerPairsLoop(_, _, _, _)
LowerPairsLoop(N, s, i, j) ==
    IF j >= i THEN N
    ELSE LowerPairsLoop(InsertPair(N, j, i, <<s[j], s[i]>>), s, i, j + 1)

UpperPairsLoop_None(N, state_size, s, i, j) == N

\* for (; j < m_state_size; j++)
RECURSIVE UpperPairsLoop(_, _, _, _, _)
UpperPairsLoop(N, state_size, s, i, j) ==
    IF j >= state_size THEN N
    ELSE UpperPairsLoop(InsertPair(N, i, j, <<s[i], s[j]>>), state_size, s, i, j + 1)

\* for (const int i : relative_state.moved_object_indices)
RECURSIVE MovedIndicesLoop(_, _, _, _)
MovedIndicesLoop(N, state_size, rs, k) ==
    IF k > Len(rs.moved_object_indices) THEN N
    ELSE MovedIndicesLoop(
             UpperPairsLoop(
                 LowerPairsLoop(
                     InsertPosition(N, rs.moved_object_indices[k],
                                    rs.state[rs.moved_object_indices[k]]),
                     rs.state, rs.moved_object_indices[k], 0),
                 state_size, rs.state, rs.moved_object_indices[k],
                 rs.moved_object_indices[k] + 1),
             state_size, rs, k + 1)

\* NoveltyHeuristic::estimate_cost_to_goal(relative_state)
novelty_estimate_cost_to_goal(state_size, positions, pairs, rs) ==
    MovedIndicesLoop([novelty |-> 3, positions |-> positions, pairs |-> pairs],
                     state_size, rs, 1)

----------------------------------------------------------------------------
(* SpecNovelty: a caller constructs a NoveltyHeuristic and either passes   *)
(* it RelativeStates of its choice, with positions in 1..MaxNoveltyPosition *)
(* and any set of indices marked as moved, or runs the sequence of calls   *)
(* of test_novelty_heuristic.                                              *)

MaxNoveltyObjects == 2
MaxNoveltyPosition == 2

\* The calls of test_novelty_heuristic.
TestCalls ==
    << [state |-> <<1, 2, 3, 4>>, moved_object_indices |-> <<0, 1, 2, 3>>],
       [state |-> <<2, 3, 4, 5>>, moved_object_indices |-> <<0, 1, 2, 3>>],
       [state |-> <<1, 3, 4, 5>>, moved_object_indices |-> <<0>>],
       [state |-> <<2, 3, 3, 5>>, moved_object_indices |-> <<2>>],
       [state |-> <<1, 3, 3, 5>>, moved_object_indices |-> <<0, 2>>],
       [state |-> <<1, 3, 3, 4>>, moved_object_indices |-> <<3>>],
       [state |-> <<1, 3, 5, 4>>, moved_object_indices |-> <<2>>],
       [state |-> <<1, 3, 5, 4>>, moved_object_indices |-> <<>>] >>

\* The costs test_novelty_heuristic expects.
TestCosts == <<1, 1, 2, 2, 3, 2, 1, 3>>

\* A State written as a tuple, as the vector indexed from 0.
StateOf(tuple) == [i \in 0 .. Len(tuple) - 1 |-> tuple[i + 1]]

\* The RelativeStates a caller passes to a heuristic for state_size objects.
NoveltyStates(state_size) == [0 .. state_size - 1 -> 1 .. MaxNoveltyPosition]

MovedLists(state_size) == {SortedSeq(S) : S \in SUBSET (0 .. state_size - 1)}

NoveltyInit ==
    /\ m_puzzle = 0
    /\ m_pushing_frontier = <<>>
    /\ m_pushed_object_idxs = <<>>
    /\ m_pushed_objects = <<>>
    /\ pc = "novelty_new"
    /\ state = <<>>
    /\ last_call = <<>>
    /\ last_goal_check = <<>>
    /\ visited = {}
    /\ frontier = <<>>
    /\ action_iterator = 0
    /\ search_result = <<>>
    /\ graphs = <<>>
    /\ dtg_frontier = {}
    /\ dependent_transitions = <<>>
    /\ NoHeuristic
    /\ AuxIdle
    /\ ExtIdle

\* NoveltyHeuristic(state_size), by test_novelty_heuristic or another caller
NoveltyConstruct ==
    /\ pc = "novelty_new"
    /\ \E state_size \in (2 .. MaxNoveltyObjects) \cup {Len(TestCalls[1].state)} :
          /\ m_state_size' = state_size
          /\ m_visited_positions' = NewVisitedPositions(state_size)
          /\ m_visited_position_pairs' = NewVisitedPairs(state_size)
          /\ pc' = IF state_size = Len(TestCalls[1].state) THEN "novelty_test"
                   ELSE "novelty_ready"
    /\ UNCHANGED <<ext_vars, puzzle_vars, state, last_call, last_goal_check, search_vars,
                   dtg_vars, rgd_vars, last_conversion, path_vars,
                   baseline_positions, baseline_pairs, legacy_positions, legacy_pairs,
                   passed_states, test_costs, last_novelty>>

\* The effects of a call of estimate_cost_to_goal(rs) that returned N.
NoveltyReturns(rs, N) ==
    /\ m_visited_positions' = N.positions
    /\ m_visited_position_pairs' = N.pairs
    /\ last_novelty' = << [state |-> rs.state,
                           moved_object_indices |-> rs.moved_object_indices,
                           cost |-> N.novelty,
                           positions_before |-> m_visited_positions,
                           pairs_before |-> m_visited_position_pairs] >>

\* estimate_cost_to_goal(relative_state)
NoveltyEstimate ==
    /\ pc = "novelty_ready"
    /\ \E s \in NoveltyStates(m_state_size), moved \in MovedLists(m_state_size) :
          NoveltyReturns([state |-> s, moved_object_indices |-> moved],
              novelty_estimate_cost_to_goal(m_state_size, m_visited_positions,
                  m_visited_position_pairs,
                  [state |-> s, moved_object_indices |-> moved]))
    /\ UNCHANGED <<ext_vars, puzzle_vars, pc, state, last_call, last_goal_check, search_vars,
                   dtg_vars, rgd_vars, last_conversion, path_vars, m_state_size,
                   baseline_positions, baseline_pairs, legacy_positions, legacy_pairs,
                   passed_states, test_costs>>

\* The next call of test_novelty_heuristic.
NoveltyTestCall ==
    /\ pc = "novelty_test"
    /\ Len(test_costs) < Len(TestCalls)
    /\ \E rs \in {[state |-> StateOf(TestCalls[Len(test_costs) + 1].state),
                   moved_object_indices |->
                       TestCalls[Len(test_costs) + 1].moved_object_indices]} :
          \E N \in {novelty_estimate_cost_to_goal(m_state_size, m_visited_positions,
                        m_visited_position_pairs, rs)} :
             /\ NoveltyReturns(rs, N)
             /\ test_costs' = Append(test_costs, N.novelty)
    /\ UNCHANGED <<ext_vars, puzzle_vars, pc, state, last_call, last_goal_check, search_vars,
                   dtg_vars, rgd_vars, last_conversion, path_vars, m_state_size,
                   baseline_positions, baseline_pairs, legacy_positions, legacy_pairs,
                   passed_states>>

NoveltyNext == NoveltyConstruct \/ NoveltyEstimate \/ NoveltyTestCall

SpecNovelty == NoveltyInit /\ [][NoveltyNext]_vars

\* The elements of a sequence.
Range(seq) == {seq[k] : k \in DOMAIN seq}

\* The pair of positions of objects i and j, the smaller index first.
OrderedPair(s, i, j) == <<s[Min({i, j})], s[Max({i, j})]>>

\* Some moved object is at a position never recorded for it.
HasNovelPosition(positions, s, moved) ==
    \E i \in moved : s[i] \notin positions[i]

\* Some moved object and some other object are at a pair of positions never
\* recorded for the two.
HasNovelPair(pairs, s, moved) ==
    \E i \in moved : \E j \in DOMAIN s \ {i} :
        OrderedPair(s, i, j) \notin pairs[Min({i, j})][Max({i, j})]

\* C18: estimate_cost_to_goal(RelativeState) returns 1 if a moved object is
\* at a position never recorded for it, otherwise 2 if a moved object and
\* another object are at a pair of positions never recorded for them,
\* otherwise 3; whatever it returns, it records the position of every moved
\* object and every pair that involves one; and in test_novelty_heuristic
\* it returns 1, 1, 2, 2, 3, 2, 1, 3.
C18_NoveltyOfRelativeState ==
    /\ \A k \in DOMAIN last_novelty :
          LET r == last_novelty[k]
              moved == Range(r.moved_object_indices)
          IN /\ r.cost = IF HasNovelPosition(r.positions_before, r.state, moved) THEN 1
                         ELSE IF HasNovelPair(r.pairs_before, r.state, moved) THEN 2
                         ELSE 3
             /\ m_visited_positions =
                    [i \in DOMAIN r.state |->
                        r.positions_before[i] \cup (IF i \in moved THEN {r.state[i]} ELSE {})]
             /\ m_visited_position_pairs =
                    [i \in DOMAIN r.state |-> [j \in DOMAIN r.state |->
                        r.pairs_before[i][j] \cup
                            (IF i < j /\ (i \in moved \/ j \in moved)
                             THEN {<<r.state[i], r.state[j]>>} ELSE {})]]
    /\ \A k \in DOMAIN test_costs : test_costs[k] = TestCosts[k]

\* C18 witness: test_novelty_heuristic has made its eight calls, the last
\* one with no index marked as moved.
C18_Witness ==
    /\ pc = "novelty_test"
    /\ Len(test_costs) = Len(TestCalls)
    /\ \E k \in DOMAIN last_novelty :
          /\ last_novelty[k].moved_object_indices = <<>>
          /\ last_novelty[k].cost = 3

----------------------------------------------------------------------------
(* BaselineNoveltyHeuristic (test_novelty_heuristic.cc) and SpecExplore:   *)
(* as test_alternative_implementation does, a caller constructs a          *)
(* NoveltyHeuristic and a BaselineNoveltyHeuristic for a puzzle, passes    *)
(* both the initial state with every index marked as moved, and then       *)
(* passes both the getNextState result of any action on any state it has   *)
(* passed before.  The test takes these in breadth-first order.            *)

\* The first loop nest of the baseline: for i, for j = i + 1 .. : pairs.
RECURSIVE BaselinePairsLoop(_, _, _, _, _)
BaselinePairsLoop(N, state_size, s, i, j) ==
    IF i >= state_size THEN N
    ELSE IF j >= state_size THEN BaselinePairsLoop(N, state_size, s, i + 1, i + 2)
    ELSE BaselinePairsLoop(
             [N EXCEPT !.pairs[i][j] = @ \cup {<<s[i], s[j]>>},
                       !.novelty = IF <<s[i], s[j]>> \notin N.pairs[i][j] THEN 2 ELSE @],
             state_size, s, i, j + 1)

\* The second loop of the baseline: for i : positions.
RECURSIVE BaselinePositionsLoop(_, _, _, _)
BaselinePositionsLoop(N, state_size, s, i) ==
    IF i >= state_size THEN N
    ELSE BaselinePositionsLoop(InsertPosition(N, i, s[i]), state_size, s, i + 1)

\* BaselineNoveltyHeuristic::estimate_cost_to_goal(relative_state)
baseline_estimate_cost_to_goal(state_size, positions, pairs, rs) ==
    BaselinePositionsLoop(
        BaselinePairsLoop([novelty |-> 3, positions |-> positions, pairs |-> pairs],
                          state_size, rs.state, 0, 1),
        state_size, rs.state, 0)

\* initial_relative_state
InitialRelativeState(puz) ==
    [state |-> puz.m_initial_state,
     moved_object_indices |-> SortedSeq(DOMAIN puz.m_initial_state)]

ExploreInit ==
    /\ m_puzzle \in SearchPuzzleIds
    /\ m_pushing_frontier = init_pushing_frontier(Puzzles[m_puzzle])
    /\ m_pushed_object_idxs = init_pushed_object_idxs(Puzzles[m_puzzle])
    /\ m_pushed_objects = init_pushed_objects(Puzzles[m_puzzle])
    /\ pc = "explore_new"
    /\ state = Puzzles[m_puzzle].m_initial_state
    /\ last_call = <<>>
    /\ last_goal_check = <<>>
    /\ visited = {}
    /\ frontier = <<>>
    /\ action_iterator = 0
    /\ search_result = <<>>
    /\ graphs = <<>>
    /\ dtg_frontier = {}
    /\ dependent_transitions = <<>>
    /\ NoHeuristic
    /\ AuxIdle
    /\ ExtIdle

\* Both heuristics are passed rs and return N and B.
ExploreReturns(rs, N, B) ==
    /\ m_visited_positions' = N.positions
    /\ m_visited_position_pairs' = N.pairs
    /\ baseline_positions' = B.positions
    /\ baseline_pairs' = B.pairs
    /\ passed_states' = passed_states \cup {rs.state}
    /\ last_novelty' = << [state |-> rs.state,
                           moved_object_indices |-> rs.moved_object_indices,
                           cost |-> N.novelty, baseline_cost |-> B.novelty] >>

\* The two constructors and the first iteration of the test's loop.
ExploreBegin ==
    /\ pc = "explore_new"
    /\ pc' = "explore"
    /\ m_state_size' = Puz.m_num_objects
    /\ ExploreReturns(InitialRelativeState(Puz),
           novelty_estimate_cost_to_goal(Puz.m_num_objects,
               NewVisitedPositions(Puz.m_num_objects), NewVisitedPairs(Puz.m_num_objects),
               InitialRelativeState(Puz)),
           baseline_estimate_cost_to_goal(Puz.m_num_objects,
               NewVisitedPositions(Puz.m_num_objects), NewVisitedPairs(Puz.m_num_objects),
               InitialRelativeState(Puz)))
    /\ UNCHANGED <<ext_vars, puzzle_vars, state, last_call, last_goal_check, search_vars,
                   dtg_vars, rgd_vars, last_conversion, path_vars,
                   legacy_positions, legacy_pairs, test_costs>>

\* getNextState on a state passed before, and both estimates of its result.
ExploreStep ==
    /\ pc = "explore"
    /\ \E s \in passed_states, action \in Actions :
          \E r \in {getNextState(Puz, Scratch, s, action)} :
             /\ m_pushing_frontier' = r.scratch.frontier
             /\ m_pushed_object_idxs' = r.scratch.idxs
             /\ m_pushed_objects' = r.scratch.pushed
             /\ state' = r.state
             /\ ExploreReturns(
                    [state |-> r.state, moved_object_indices |-> r.moved_object_indices],
                    novelty_estimate_cost_to_goal(m_state_size, m_visited_positions,
                        m_visited_position_pairs,
                        [state |-> r.state,
                         moved_object_indices |-> r.moved_object_indices]),
                    baseline_estimate_cost_to_goal(m_state_size, baseline_positions,
                        baseline_pairs,
                        [state |-> r.state,
                         moved_object_indices |-> r.moved_object_indices]))
    /\ UNCHANGED <<ext_vars, m_puzzle, pc, last_call, last_goal_check, search_vars,
                   dtg_vars, rgd_vars, last_conversion, path_vars, m_state_size,
                   legacy_positions, legacy_pairs, test_costs>>

ExploreNext == ExploreBegin \/ ExploreStep

SpecExplore == ExploreInit /\ [][ExploreNext]_vars

\* C19: on every call of such a sequence, the NoveltyHeuristic, which looks
\* only at the moved indices, returns what the baseline returns, which
\* looks at every index and every pair.
C19_OptimizedMatchesBaseline ==
    \A k \in DOMAIN last_novelty :
        last_novelty[k].cost = last_novelty[k].baseline_cost

\* C19 witness: both returned 2 for a state in which some object had moved
\* and some other had not.
C19_Witness ==
    \E k \in DOMAIN last_novelty :
        /\ last_novelty[k].cost = 2
        /\ last_novelty[k].baseline_cost = 2
        /\ Len(last_novelty[k].moved_object_indices) >= 1
        /\ Len(last_novelty[k].moved_object_indices) < m_state_size

----------------------------------------------------------------------------
(* The NoveltyHeuristic that takes a State (the other novelty.cc), and     *)
(* SpecLegacy: a caller constructs one NoveltyHeuristic of each kind and   *)
(* passes every state of its sequence to both, to the one that takes a     *)
(* RelativeState with every index marked as moved.                         *)

\* The first loop nest: it stops at the first novel pair, after `j++`.
\* The result holds i and j as the loops leave them.
RECURSIVE FirstNovelPairLoop(_, _, _, _, _)
FirstNovelPairLoop(N, state_size, s, i, j) ==
    IF i >= state_size THEN [N |-> N, i |-> i, j |-> j]
    ELSE IF j >= state_size THEN FirstNovelPairLoop(N, state_size, s, i + 1, i + 2)
    ELSE IF <<s[i], s[j]>> \notin N.pairs[i][j]
    THEN [N |-> [N EXCEPT !.pairs[i][j] = @ \cup {<<s[i], s[j]>>}, !.novelty = 1],
          i |-> i, j |-> j + 1]
    ELSE FirstNovelPairLoop(N, state_size, s, i, j + 1)

FinishPairsLoop_None(N, state_size, s, i, j) == N

\* "Finish updating all visited pairs if the loop above exited early."
RECURSIVE FinishPairsLoop(_, _, _, _, _)
FinishPairsLoop(N, state_size, s, i, j) ==
    IF i >= state_size THEN N
    ELSE IF j >= state_size THEN FinishPairsLoop(N, state_size, s, i + 1, i + 2)
    ELSE FinishPairsLoop([N EXCEPT !.pairs[i][j] = @ \cup {<<s[i], s[j]>>}],
                         state_size, s, i, j + 1)

\* The third loop: it stops at the first novel position, after `i++`.
RECURSIVE FirstNovelPositionLoop(_, _, _, _)
FirstNovelPositionLoop(N, state_size, s, i) ==
    IF i >= state_size THEN [N |-> N, i |-> i]
    ELSE IF s[i] \notin N.positions[i]
    THEN [N |-> [N EXCEPT !.positions[i] = @ \cup {s[i]}, !.novelty = 0], i |-> i + 1]
    ELSE FirstNovelPositionLoop(N, state_size, s, i + 1)

\* "Finish updating all visited positions if the loop above exited early."
RECURSIVE FinishPositionsLoop(_, _, _, _)
FinishPositionsLoop(N, state_size, s, i) ==
    IF i >= state_size THEN N
    ELSE FinishPositionsLoop([N EXCEPT !.positions[i] = @ \cup {s[i]}],
                             state_size, s, i + 1)

\* The loops over the pairs, from what the first of them returned.
AfterFirstNovelPair(state_size, s, first) ==
    FinishPairsLoop(first.N, state_size, s, first.i, first.j)

\* The loops over the positions, from what the first of them returned.
AfterFirstNovelPosition(state_size, s, first) ==
    FinishPositionsLoop(first.N, state_size, s, first.i)

\* NoveltyHeuristic::estimate_cost_to_goal(state)
state_estimate_cost_to_goal(state_size, positions, pairs, s) ==
    AfterFirstNovelPosition(state_size, s,
        FirstNovelPositionLoop(
            AfterFirstNovelPair(state_size, s,
                FirstNovelPairLoop([novelty |-> 2, positions |-> positions, pairs |-> pairs],
                                   state_size, s, 0, 1)),
            state_size, s, 0))

MaxLegacyObjects == 3

\* The RelativeState with the given state and every index marked as moved.
AllMoved(s) == [state |-> s, moved_object_indices |-> SortedSeq(DOMAIN s)]

LegacyInit ==
    /\ m_puzzle = 0
    /\ m_pushing_frontier = <<>>
    /\ m_pushed_object_idxs = <<>>
    /\ m_pushed_objects = <<>>
    /\ pc = "legacy_new"
    /\ state = <<>>
    /\ last_call = <<>>
    /\ last_goal_check = <<>>
    /\ visited = {}
    /\ frontier = <<>>
    /\ action_iterator = 0
    /\ search_result = <<>>
    /\ graphs = <<>>
    /\ dtg_frontier = {}
    /\ dependent_transitions = <<>>
    /\ NoHeuristic
    /\ AuxIdle
    /\ ExtIdle

\* NoveltyHeuristic(state_size), of each kind
LegacyConstruct ==
    /\ pc = "legacy_new"
    /\ pc' = "legacy_ready"
    /\ \E state_size \in 1 .. MaxLegacyObjects :
          /\ m_state_size' = state_size
          /\ m_visited_positions' = NewVisitedPositions(state_size)
          /\ m_visited_position_pairs' = NewVisitedPairs(state_size)
          /\ legacy_positions' = NewVisitedPositions(state_size)
          /\ legacy_pairs' = NewVisitedPairs(state_size)
    /\ UNCHANGED <<ext_vars, puzzle_vars, state, last_call, last_goal_check, search_vars,
                   dtg_vars, rgd_vars, last_conversion, path_vars,
                   baseline_positions, baseline_pairs, passed_states, test_costs,
                   last_novelty>>

\* estimate_cost_to_goal on the next state of the sequence, of each kind
LegacyEstimate ==
    /\ pc = "legacy_ready"
    /\ \E s \in NoveltyStates(m_state_size) :
          \E N \in {novelty_estimate_cost_to_goal(m_state_size, m_visited_positions,
                        m_visited_position_pairs, AllMoved(s))},
             L \in {state_estimate_cost_to_goal(m_state_size, legacy_positions,
                        legacy_pairs, s)} :
             /\ m_visited_positions' = N.positions
             /\ m_visited_position_pairs' = N.pairs
             /\ legacy_positions' = L.positions
             /\ legacy_pairs' = L.pairs
             /\ last_novelty' = << [state |-> s, cost |-> N.novelty,
                                    state_cost |-> L.novelty,
                                    pairs_before |-> legacy_pairs] >>
    /\ UNCHANGED <<ext_vars, puzzle_vars, pc, state, last_call, last_goal_check, search_vars,
                   dtg_vars, rgd_vars, last_conversion, path_vars, m_state_size,
                   baseline_positions, baseline_pairs, passed_states, test_costs>>

LegacyNext == LegacyConstruct \/ LegacyEstimate

SpecLegacy == LegacyInit /\ [][LegacyNext]_vars

\* C20: on every call of a sequence of states, the NoveltyHeuristic that
\* takes a State returns one less than the one that takes a RelativeState
\* returns for the state with every index marked as moved, and the two have
\* recorded the same positions and the same pairs.
C20_StateVariantIsOneLess ==
    /\ \A k \in DOMAIN last_novelty :
          last_novelty[k].state_cost = last_novelty[k].cost - 1
    /\ legacy_positions = m_visited_positions
    /\ legacy_pairs = m_visited_position_pairs

\* C20 witness: the heuristic that takes a State returned 1 for a state of
\* three objects whose first pair was novel, and has recorded its last pair.
C20_Witness ==
    \E k \in DOMAIN last_novelty :
        LET r == last_novelty[k]
        IN /\ m_state_size = 3
           /\ r.state_cost = 1
           /\ r.cost = 2
           /\ <<r.state[0], r.state[1]>> \notin r.pairs_before[0][1]
           /\ <<r.state[1], r.state[2]>> \notin r.pairs_before[1][2]
           /\ <<r.state[1], r.state[2]>> \in legacy_pairs[1][2]

----------------------------------------------------------------------------
(* What a NoveltyHeuristic keeps over a sequence of calls (novelty.cc).    *)

\* Every RelativeState a caller of SpecNovelty can pass to the heuristic.
NoveltyCalls ==
    {[state |-> s, moved_object_indices |-> moved] :
        s \in NoveltyStates(m_state_size), moved \in MovedLists(m_state_size)}
    \cup {[state |-> StateOf(TestCalls[k].state),
           moved_object_indices |-> TestCalls[k].moved_object_indices] :
             k \in {n \in DOMAIN TestCalls : Len(TestCalls[n].state) = m_state_size}}

\* The position of every moved object of rs and every pair that involves
\* one are in the visited sets.
Recorded(positions, pairs, rs) ==
    \A i \in Range(rs.moved_object_indices) :
        /\ rs.state[i] \in positions[i]
        /\ \A j \in DOMAIN rs.state \ {i} :
              OrderedPair(rs.state, i, j) \in pairs[Min({i, j})][Max({i, j})]

\* No visited set loses an element.
VisitedSetsGrow ==
    /\ DOMAIN m_visited_positions \subseteq DOMAIN m_visited_positions'
    /\ \A i \in DOMAIN m_visited_positions :
          /\ m_visited_positions[i] \subseteq m_visited_positions'[i]
          /\ \A j \in DOMAIN m_visited_positions :
                m_visited_position_pairs[i][j] \subseteq m_visited_position_pairs'[i][j]

\* A call returns 1 exactly when it adds a position, and whatever a call
\* finds new was in no visited set before and is in one afterwards.
DiscoveriesAreNew ==
    \A k \in DOMAIN last_novelty' :
        (last_novelty' # last_novelty \/ m_visited_positions' # m_visited_positions) =>
            /\ (last_novelty'[k].cost = 1) = (m_visited_positions' # m_visited_positions)
            /\ \A i \in Range(last_novelty'[k].moved_object_indices) :
                  last_novelty'[k].state[i] \in m_visited_positions'[i]

\* C21: over any sequence of calls on one NoveltyHeuristic the visited
\* positions and visited pairs never lose an element; a position of an
\* object that a call found new stays recorded, so that no later call finds
\* it new again; and a call with a RelativeState whose positions and pairs
\* are all recorded, as they are once it has been passed, returns 3.
C21_NoveltyIsMonotone ==
    /\ [](\A k \in DOMAIN last_novelty :
             Recorded(m_visited_positions, m_visited_position_pairs, last_novelty[k]))
    /\ [](m_state_size > 0 =>
             \A rs \in NoveltyCalls :
                 Recorded(m_visited_positions, m_visited_position_pairs, rs) =>
                     novelty_estimate_cost_to_goal(m_state_size, m_visited_positions,
                         m_visited_position_pairs, rs).novelty = 3)
    /\ [][VisitedSetsGrow /\ DiscoveriesAreNew
          /\ \A rs \in NoveltyCalls :
                Recorded(m_visited_positions, m_visited_position_pairs, rs) =>
                    Recorded(m_visited_positions', m_visited_position_pairs', rs)]_vars

\* C21 witness: a call passed a RelativeState with every index marked as
\* moved whose positions and pairs had all been recorded by earlier calls,
\* and returned 3.
C21_Witness ==
    \E k \in DOMAIN last_novelty :
        /\ Len(last_novelty[k].moved_object_indices) = m_state_size
        /\ Recorded(last_novelty[k].positions_before, last_novelty[k].pairs_before,
                    last_novelty[k])
        /\ last_novelty[k].cost = 3

----------------------------------------------------------------------------
(* WeightedSumHeuristic (weighted_sum.cc).  The children are the objects   *)
(* behind the shared pointers of a HeuristicsAndWeights list: a            *)
(* ConstantHeuristic (test_weighted_sum.cc) or a NoveltyHeuristic          *)
(* (run_planner.cc).  Costs and weights are small integers, on which float *)
(* arithmetic is exact, or infinite.                                       *)

\* No PushWorldPuzzle, search, graph builder, heuristic or PathDistances
\* exists.
OldIdle ==
    /\ m_puzzle = 0
    /\ m_pushing_frontier = <<>>
    /\ m_pushed_object_idxs = <<>>
    /\ m_pushed_objects = <<>>
    /\ state = <<>>
    /\ last_call = <<>>
    /\ last_goal_check = <<>>
    /\ visited = {}
    /\ frontier = <<>>
    /\ action_iterator = 0
    /\ search_result = <<>>
    /\ graphs = <<>>
    /\ dtg_frontier = {}
    /\ dependent_transitions = <<>>
    /\ NoHeuristic
    /\ AuxIdle

\* operator* of float
CostMul(x, y) ==
    IF x = NaN \/ y = NaN THEN NaN
    ELSE IF x \in {Infinity, -Infinity} \/ y \in {Infinity, -Infinity}
         THEN IF x = 0 \/ y = 0 THEN NaN
              ELSE IF (x > 0) = (y > 0) THEN Infinity ELSE -Infinity
    ELSE x * y

\* ConstantHeuristic(cost)
ConstantHeuristic(cost) == [kind |-> "constant", m_cost |-> cost]

\* NoveltyHeuristic(state_size)
NoveltyHeuristic(state_size) ==
    [kind |-> "novelty", m_state_size |-> state_size,
     m_visited_positions |-> NewVisitedPositions(state_size),
     m_visited_position_pairs |-> NewVisitedPairs(state_size)]

\* RecursiveGraphDistanceHeuristic(puzzle, fewest_tools): c is what its
\* methods read, H its path distances and its pushing-cost cache.
RecursiveGraphDistanceHeuristic(puz, fewest_tools, reversed) ==
    [kind |-> "rgd", m_fewest_tools |-> fewest_tools,
     c |-> [puz |-> puz, graphs |-> build_feasible_movement_graphs(puz),
            reversed |-> reversed],
     H |-> [pd |-> [id \in DOMAIN build_feasible_movement_graphs(puz) |->
                       NewPathDistances(build_feasible_movement_graphs(puz)[id])],
            cache |-> <<>>]]

\* The RecursiveGraphDistanceHeuristic after a call that returned r.
AfterEstimate(child, r) == [cost |-> r.value, child |-> [child EXCEPT !.H = r.H]]

\* The child after a call that returned N.
AdvancedChild(child, N) ==
    [child EXCEPT !.m_visited_positions = N.positions,
                  !.m_visited_position_pairs = N.pairs]

\* it->first->estimate_cost_to_goal(relative_state): the cost and the child
\* afterwards
CallChild(child, rs) ==
    IF child.kind = "constant" THEN [cost |-> child.m_cost, child |-> child]
    ELSE IF child.kind = "rgd"
    THEN AfterEstimate(child, estimate_cost_to_goal(child.c, child.H,
                                  child.m_fewest_tools, rs.state))
    ELSE [cost |-> novelty_estimate_cost_to_goal(child.m_state_size,
                       child.m_visited_positions, child.m_visited_position_pairs,
                       rs).novelty,
          child |-> AdvancedChild(child,
                       novelty_estimate_cost_to_goal(child.m_state_size,
                           child.m_visited_positions, child.m_visited_position_pairs,
                           rs))]

Weighted_Unweighted(cost, weight) == cost

\* it->first->estimate_cost_to_goal(relative_state) * it->second
Weighted(cost, weight) == CostMul(cost, weight)

\* cost = ... (the first pair); cost += ... (the others)
AddChildCost(acc, k, it, r, rs) ==
    [cost |-> IF k = 1 THEN Weighted(r.cost, it.weight)
              ELSE CostAdd(acc.cost, Weighted(r.cost, it.weight)),
     heuristics |-> [acc.heuristics EXCEPT ![it.heuristic] = r.child],
     calls |-> Append(acc.calls, [heuristic |-> it.heuristic,
                                  relative_state |-> rs, cost |-> r.cost])]

\* auto it = begin(); ...; while (++it != end()) ...
RECURSIVE WeightedSumLoop(_, _, _, _)
WeightedSumLoop(acc, list, k, rs) ==
    IF k > Len(list) THEN acc
    ELSE WeightedSumLoop(
             AddChildCost(acc, k, list[k],
                          CallChild(acc.heuristics[list[k].heuristic], rs), rs),
             list, k + 1, rs)

\* WeightedSumHeuristic::estimate_cost_to_goal(relative_state)
weighted_sum_estimate_cost_to_goal(children, list, rs) ==
    WeightedSumLoop([cost |-> 0, heuristics |-> children, calls |-> <<>>], list, 1, rs)

WeightedSumThrows_Never(heuristics_and_weights) == FALSE

\* if (heuristics_and_weights.empty()) throw std::invalid_argument
WeightedSumThrows(heuristics_and_weights) == heuristics_and_weights = <<>>

----------------------------------------------------------------------------
(* SpecWeightedSum: a caller makes two child heuristics, a                 *)
(* NoveltyHeuristic and a ConstantHeuristic, constructs a                  *)
(* WeightedSumHeuristic from a list of at most MaxChildren pairs of a      *)
(* child and a weight, in which a child may appear more than once, and     *)
(* passes it up to MaxSumCalls RelativeStates.                             *)

MaxChildren == 2
MaxWeight == 2
MaxSumCalls == 2

Weights == {-1, 0, MaxWeight}
ConstantCosts == {1, Infinity}

\* The lists a caller can pass to WeightedSumHeuristic.
HeuristicsAndWeights ==
    UNION {[1 .. n -> [heuristic : 1 .. 2, weight : Weights]] : n \in 0 .. MaxChildren}

WeightedSumInit ==
    /\ OldIdle
    /\ pc = "sum_new"
    /\ \E cost \in ConstantCosts :
          heuristics = <<NoveltyHeuristic(2), ConstantHeuristic(cost)>>
    /\ m_heuristics_and_weights = <<>>
    /\ last_sum = <<>>
    /\ NoQueues
    /\ NoChain
    /\ NoIterator

\* WeightedSumHeuristic(heuristics_and_weights)
WeightedSumConstruct ==
    /\ pc = "sum_new"
    /\ \E heuristics_and_weights \in HeuristicsAndWeights :
          /\ last_sum' = << [heuristics_and_weights |-> heuristics_and_weights,
                              count |-> 0] >>
          /\ IF WeightedSumThrows(heuristics_and_weights)
             THEN /\ pc' = "sum_invalid_argument"
                  /\ UNCHANGED m_heuristics_and_weights
             ELSE /\ pc' = "sum_ready"
                  /\ m_heuristics_and_weights' = heuristics_and_weights
    /\ UNCHANGED <<old_vars, queue_vars, chain_vars, iterator_vars, repeat_vars, heuristics>>

\* estimate_cost_to_goal(relative_state)
WeightedSumEstimate ==
    /\ pc = "sum_ready"
    /\ last_sum[1].count < MaxSumCalls
    /\ \E s \in NoveltyStates(2), moved \in MovedLists(2) :
          \E r \in {weighted_sum_estimate_cost_to_goal(heuristics,
                        m_heuristics_and_weights,
                        [state |-> s, moved_object_indices |-> moved])} :
             /\ heuristics' = r.heuristics
             /\ last_sum' = << [relative_state |->
                                    [state |-> s, moved_object_indices |-> moved],
                                cost |-> r.cost, calls |-> r.calls,
                                count |-> last_sum[1].count + 1,
                                heuristics_before |-> heuristics] >>
    /\ UNCHANGED <<old_vars, queue_vars, chain_vars, iterator_vars, repeat_vars, pc, m_heuristics_and_weights>>

WeightedSumNext == WeightedSumConstruct \/ WeightedSumEstimate

SpecWeightedSum == WeightedSumInit /\ [][WeightedSumNext]_vars

\* The sum of the weighted costs of calls k..Len(calls), the last one first.
RECURSIVE SumOfWeighted(_, _, _)
SumOfWeighted(list, calls, k) ==
    IF k = Len(calls) THEN CostMul(list[k].weight, calls[k].cost)
    ELSE CostAdd(SumOfWeighted(list, calls, k + 1),
                 CostMul(list[k].weight, calls[k].cost))

\* What `child` returns for rs after the calls before call k that went to
\* the same object.
RECURSIVE ChildBefore(_, _, _, _)
ChildBefore(child, id, calls, k) ==
    IF k = 0 THEN child
    ELSE IF calls[k].heuristic = id
         THEN CallChild(ChildBefore(child, id, calls, k - 1),
                        calls[k].relative_state).child
         ELSE ChildBefore(child, id, calls, k - 1)

\* C22: estimate_cost_to_goal(x) calls the child of every pair of the list
\* once, in list order and with x, and returns the sum of the weights times
\* the costs these calls returned; a child that the list names once is
\* advanced by exactly one call.
C22_WeightedSumOfChildren ==
    \A n \in DOMAIN last_sum :
        pc = "sum_ready" /\ "calls" \in DOMAIN last_sum[n] =>
            /\ Len(last_sum[n].calls) = Len(m_heuristics_and_weights)
            /\ \A k \in DOMAIN last_sum[n].calls :
                  /\ last_sum[n].calls[k].heuristic = m_heuristics_and_weights[k].heuristic
                  /\ last_sum[n].calls[k].relative_state = last_sum[n].relative_state
                  /\ last_sum[n].calls[k].cost =
                         CallChild(ChildBefore(
                                       last_sum[n].heuristics_before[
                                           m_heuristics_and_weights[k].heuristic],
                                       m_heuristics_and_weights[k].heuristic,
                                       last_sum[n].calls, k - 1),
                                   last_sum[n].relative_state).cost
            /\ last_sum[n].cost =
                   SumOfWeighted(m_heuristics_and_weights, last_sum[n].calls, 1)
            /\ \A id \in DOMAIN heuristics :
                  heuristics[id] =
                      IF Cardinality({k \in DOMAIN m_heuristics_and_weights :
                                         m_heuristics_and_weights[k].heuristic = id}) = 1
                      THEN CallChild(last_sum[n].heuristics_before[id],
                                     last_sum[n].relative_state).child
                      ELSE ChildBefore(last_sum[n].heuristics_before[id], id,
                                       last_sum[n].calls, Len(last_sum[n].calls))

\* C22 witness: a sum over a NoveltyHeuristic with weight 2 and a
\* ConstantHeuristic with weight -1 returned 2 * 2 - 1 = 3, the novelty
\* child having found a new pair of positions but no new position.
C22_Witness ==
    \E n \in DOMAIN last_sum :
        /\ pc = "sum_ready"
        /\ "calls" \in DOMAIN last_sum[n]
        /\ m_heuristics_and_weights =
               << [heuristic |-> 1, weight |-> 2], [heuristic |-> 2, weight |-> -1] >>
        /\ last_sum[n].calls[1].cost = 2
        /\ last_sum[n].cost = 3

\* C23: constructing a WeightedSumHeuristic from an empty list throws
\* std::invalid_argument and leaves no heuristic to call; constructing one
\* from any other list succeeds and the heuristic holds that list.
C23_EmptyListIsInvalid ==
    \A n \in DOMAIN last_sum :
        /\ pc = "sum_invalid_argument" =>
              /\ last_sum[n].heuristics_and_weights = <<>>
              /\ m_heuristics_and_weights = <<>>
              /\ ~ ENABLED WeightedSumEstimate
        /\ pc = "sum_ready" =>
              /\ m_heuristics_and_weights # <<>>
              /\ "heuristics_and_weights" \in DOMAIN last_sum[n] =>
                    m_heuristics_and_weights = last_sum[n].heuristics_and_weights

\* C23 witness: the constructor has thrown.
C23_Witness ==
    /\ pc = "sum_invalid_argument"
    /\ last_sum = << [heuristics_and_weights |-> <<>>, count |-> 0] >>

----------------------------------------------------------------------------
(* SpecQueue: a caller drives a FibonacciPriorityQueue and a               *)
(* BucketPriorityQueue of strings with the same operations, as             *)
(* test_priority_queue does with each, and calls pop only on a queue that  *)
(* is not empty, as best_first_search does.  Which of several entries of   *)
(* the least priority a Fibonacci heap holds at its top is left open by    *)
(* boost::heap, so top() of the FibonacciPriorityQueue is any of them.     *)

MaxQueuePushes == 4
MaxQueuePriority == 3

QueueElements == {"foo", "bar", "baz"}
QueuePriorities == 1 .. MaxQueuePriority

\* The (element, priority) entries a queue holds, read off its members.
RECURSIVE BucketEntries(_, _)
BucketEntries(m_elements, ps) ==
    IF ps = {} THEN EmptyBag
    ELSE LET priority == CHOOSE x \in ps : TRUE
         IN BagOfAll(LAMBDA i : <<m_elements[priority][i], priority>>,
                     SetToBag(DOMAIN m_elements[priority]))
            (+) BucketEntries(m_elements, ps \ {priority})

QueueEntries(q) ==
    IF q.kind = "fibonacci" THEN q.m_heap
    ELSE BucketEntries(q.m_elements, DOMAIN q.m_elements)

\* The priorities of the entries of a bag, with their multiplicities.
EntryPriorities(entries) == BagOfAll(LAMBDA e : e[2], entries)

QueueInit ==
    /\ OldIdle
    /\ NoWeightedSum
    /\ pc = "queue"
    /\ queues = [kind \in QueueKinds |-> NewQueue(kind)]
    /\ held = [kind \in QueueKinds |-> EmptyBag]
    /\ queue_counts = [pushes |-> 0, pops |-> 0]
    /\ last_queue_op = <<>>
    /\ NoChain
    /\ NoIterator

\* What the caller of an operation observes before it acts.
QueueObserved(op, element, priority, tops) ==
    << [op |-> op, element |-> element, priority |-> priority, tops |-> tops,
        held_before |-> held,
        size_before |-> [kind \in QueueKinds |-> QueueSize(queues[kind])]] >>

\* queue->push(element, priority)
QueueOpPush ==
    /\ pc = "queue"
    /\ queue_counts.pushes < MaxQueuePushes
    /\ \E element \in QueueElements, priority \in QueuePriorities :
          /\ queues' = [kind \in QueueKinds |->
                           QueuePush(queues[kind], element, priority)]
          /\ held' = [kind \in QueueKinds |->
                         held[kind] (+) SetToBag({<<element, priority>>})]
          /\ last_queue_op' = QueueObserved("push", element, priority, <<>>)
    /\ queue_counts' = [queue_counts EXCEPT !.pushes = @ + 1]
    /\ UNCHANGED <<old_vars, sum_vars, chain_vars, iterator_vars, repeat_vars, pc>>

\* queue->top(); queue->min_priority(); queue->pop()
QueueOpPop ==
    /\ pc = "queue"
    /\ \A kind \in QueueKinds : ~ QueueEmpty(queues[kind])
    /\ \E tops \in [QueueKinds -> QueueElements] :
          /\ \A kind \in QueueKinds : tops[kind] \in QueueTops(queues[kind])
          /\ queues' = [kind \in QueueKinds |-> QueuePop(queues[kind], tops[kind])]
          /\ held' = [kind \in QueueKinds |->
                         held[kind] (-)
                         SetToBag({<<tops[kind], QueueMinPriority(queues[kind])>>})]
          /\ last_queue_op' =
                 QueueObserved("pop", "", [kind \in QueueKinds |->
                                              QueueMinPriority(queues[kind])], tops)
    /\ queue_counts' = [queue_counts EXCEPT !.pops = @ + 1]
    /\ UNCHANGED <<old_vars, sum_vars, chain_vars, iterator_vars, repeat_vars, pc>>

\* queue->clear()
QueueOpClear ==
    /\ pc = "queue"
    /\ queues' = [kind \in QueueKinds |-> QueueClear(queues[kind])]
    /\ held' = [kind \in QueueKinds |-> EmptyBag]
    /\ queue_counts' = [pushes |-> 0, pops |-> 0]
    /\ last_queue_op' = QueueObserved("clear", "", 0, <<>>)
    /\ UNCHANGED <<old_vars, sum_vars, chain_vars, iterator_vars, repeat_vars, pc>>

QueueNext == QueueOpPush \/ QueueOpPop \/ QueueOpClear

SpecQueue == QueueInit /\ [][QueueNext]_vars

\* C24: for both queues, whatever pushes, pops and clears were made, size()
\* is the number of pushes minus the number of pops since the last clear,
\* empty() holds exactly when size() is 0, min_priority() is the least
\* priority of the entries held, top() is an element held with that
\* priority, pop() removes exactly one entry, of that least priority, and
\* push() adds one entry and changes no other, also when the element is
\* already held.
C24_QueueContract ==
    \A kind \in DOMAIN queues :
        /\ QueueSize(queues[kind]) = queue_counts.pushes - queue_counts.pops
        /\ QueueEmpty(queues[kind]) = (QueueSize(queues[kind]) = 0)
        /\ QueueEntries(queues[kind]) = held[kind]
        /\ ~ QueueEmpty(queues[kind]) =>
              /\ QueueMinPriority(queues[kind]) =
                     Min({e[2] : e \in BagToSet(held[kind])})
              /\ QueueTops(queues[kind]) # {}
              /\ \A top \in QueueTops(queues[kind]) :
                    BagIn(<<top, QueueMinPriority(queues[kind])>>, held[kind])
        /\ \A n \in DOMAIN last_queue_op :
              /\ last_queue_op[n].op = "pop" =>
                    /\ BagIn(<<last_queue_op[n].tops[kind],
                               last_queue_op[n].priority[kind]>>,
                             last_queue_op[n].held_before[kind])
                    /\ last_queue_op[n].priority[kind] =
                           Min({e[2] : e \in BagToSet(last_queue_op[n].held_before[kind])})
                    /\ held[kind] (+) SetToBag({<<last_queue_op[n].tops[kind],
                                                  last_queue_op[n].priority[kind]>>})
                           = last_queue_op[n].held_before[kind]
                    /\ QueueSize(queues[kind]) = last_queue_op[n].size_before[kind] - 1
              /\ last_queue_op[n].op = "push" =>
                    /\ QueueEntries(queues[kind]) =
                           last_queue_op[n].held_before[kind] (+)
                           SetToBag({<<last_queue_op[n].element,
                                       last_queue_op[n].priority>>})
                    /\ QueueSize(queues[kind]) = last_queue_op[n].size_before[kind] + 1

\* C24 witness: "foo" was pushed while the queues held "foo" with another
\* priority, and both entries are held.
C24_Witness ==
    \E n \in DOMAIN last_queue_op :
        /\ last_queue_op[n].op = "push"
        /\ last_queue_op[n].element = "foo"
        /\ last_queue_op[n].priority = 3
        /\ \A kind \in QueueKinds :
              /\ BagIn(<<"foo", 1>>, last_queue_op[n].held_before[kind])
              /\ CopiesIn(<<"foo", 1>>, held[kind]) = 1
              /\ CopiesIn(<<"foo", 3>>, held[kind]) = 1

\* C25 as stated: after every operation the two queues report the same
\* size(), empty() and min_priority() and hold the same multiset of
\* (element, priority) entries.
C25_SameEntries ==
    queues # <<>> =>
        /\ QueueSize(queues["fibonacci"]) = QueueSize(queues["bucket"])
        /\ QueueEmpty(queues["fibonacci"]) = QueueEmpty(queues["bucket"])
        /\ ~ QueueEmpty(queues["fibonacci"]) =>
              QueueMinPriority(queues["fibonacci"]) = QueueMinPriority(queues["bucket"])
        /\ QueueEntries(queues["fibonacci"]) = QueueEntries(queues["bucket"])

\* C25, corrected: after every operation the two queues report the same
\* size(), empty() and min_priority() and hold the same multiset of
\* priorities; they hold the same multiset of entries as long as every pop
\* removed the same element from both, and otherwise differ in the elements
\* held with the priorities at which the pops differed.
C25_SamePriorities ==
    queues # <<>> =>
        /\ QueueSize(queues["fibonacci"]) = QueueSize(queues["bucket"])
        /\ QueueEmpty(queues["fibonacci"]) = QueueEmpty(queues["bucket"])
        /\ ~ QueueEmpty(queues["fibonacci"]) =>
              QueueMinPriority(queues["fibonacci"]) = QueueMinPriority(queues["bucket"])
        /\ EntryPriorities(QueueEntries(queues["fibonacci"])) =
               EntryPriorities(QueueEntries(queues["bucket"]))
        /\ \A n \in DOMAIN last_queue_op :
              (/\ last_queue_op[n].op = "pop"
               /\ last_queue_op[n].held_before["fibonacci"] =
                      last_queue_op[n].held_before["bucket"]
               /\ last_queue_op[n].tops["fibonacci"] = last_queue_op[n].tops["bucket"])
                  => QueueEntries(queues["fibonacci"]) = QueueEntries(queues["bucket"])

\* C25 witness: "bar" and "baz" were held with the least priority, pop()
\* removed "bar" from one queue and "baz" from the other, and the queues
\* hold different entries with the same priorities.
C25_Witness ==
    \E n \in DOMAIN last_queue_op :
        /\ last_queue_op[n].op = "pop"
        /\ last_queue_op[n].held_before["fibonacci"] =
               last_queue_op[n].held_before["bucket"]
        /\ last_queue_op[n].tops["fibonacci"] = "bar"
        /\ last_queue_op[n].tops["bucket"] = "baz"
        /\ QueueEntries(queues["fibonacci"]) # QueueEntries(queues["bucket"])

----------------------------------------------------------------------------
(* SpecQueueMisuse: the caller of SpecQueue may also call top(),           *)
(* min_priority() or pop() on a queue that is empty.  None of the methods  *)
(* tests for emptiness (priority_queue.h:144-148, 206-221): each begins    *)
(* with top() of an empty boost::heap::fibonacci_heap, which is undefined  *)
(* behaviour: BOOST_ASSERT(!empty()) aborts the process where assertions   *)
(* are compiled in, and otherwise the heap reads through its null          *)
(* top_element, which ends the process with a segmentation fault or hands  *)
(* back an indeterminate value.  With such a value the rest of a           *)
(* BucketPriorityQueue method runs: m_elements[priority] inserts an empty  *)
(* bucket, and pop() decrements m_num_elements.                            *)

EmptyCalls == {"top", "min_priority", "pop"}

\* What a call on an empty queue can end in.
EmptyCallOutcomes(kind) ==
    {"assertion_failed", "segmentation_fault"}
    \cup (IF kind = "bucket" THEN {"returned"} ELSE {})

\* The BucketPriorityQueue after a call on it that ran on with the
\* indeterminate `priority`.
AfterEmptyCall(q, call, priority) ==
    IF call = "min_priority" THEN q
    ELSE IF call = "top" THEN [q EXCEPT !.m_elements = (priority :> <<>>) @@ @]
    ELSE [q EXCEPT !.m_elements = (priority :> <<>>) @@ @,
                   !.m_num_elements = @ - 1]

\* queue->top(), queue->min_priority() or queue->pop() when queue->empty()
QueueCallOnEmpty ==
    /\ pc = "queue"
    /\ \E kind \in QueueKinds, call \in EmptyCalls, priority \in QueuePriorities :
          /\ QueueEmpty(queues[kind])
          /\ \E outcome \in EmptyCallOutcomes(kind) :
                /\ pc' = IF outcome = "returned" THEN "queue_undefined" ELSE outcome
                /\ queues' = IF outcome = "returned"
                             THEN [queues EXCEPT
                                      ![kind] = AfterEmptyCall(@, call, priority)]
                             ELSE queues
                /\ last_queue_op' = << [op |-> call, kind |-> kind, on_empty |-> TRUE,
                                        outcome |-> outcome] >>
    /\ UNCHANGED <<old_vars, sum_vars, chain_vars, iterator_vars, repeat_vars, held, queue_counts>>

QueueMisuseNext == QueueNext \/ QueueCallOnEmpty

SpecQueueMisuse == QueueInit /\ [][QueueMisuseNext]_vars

\* C26: top(), min_priority() or pop() called on an empty queue of either
\* kind throws an exception, and afterwards the queue is empty and its
\* size() is 0.
C26_EmptyQueueThrows ==
    \A n \in DOMAIN last_queue_op :
        "on_empty" \in DOMAIN last_queue_op[n] =>
            /\ last_queue_op[n].outcome = "exception"
            /\ QueueEmpty(queues[last_queue_op[n].kind])
            /\ QueueSize(queues[last_queue_op[n].kind]) = 0

----------------------------------------------------------------------------
(* SpecBacktrack: as test_backtrack_plan does, a caller makes a root       *)
(* SearchNode with the initial state of a puzzle and extends the chain by  *)
(* up to MaxChain nodes, each with the getNextState result of an action on *)
(* the state of the last node, or, as a caller of the public SearchNode    *)
(* constructor can, with any other reachable state; then it calls          *)
(* backtrackPlan on the last node or on its parent.                        *)

MaxChain == 3

BacktrackInit ==
    /\ m_puzzle \in PuzzleIds
    /\ m_pushing_frontier = init_pushing_frontier(Puzzles[m_puzzle])
    /\ m_pushed_object_idxs = init_pushed_object_idxs(Puzzles[m_puzzle])
    /\ m_pushed_objects = init_pushed_objects(Puzzles[m_puzzle])
    /\ pc = "search_node"
    /\ state = <<>>
    /\ last_call = <<>>
    /\ last_goal_check = <<>>
    /\ visited = {}
    /\ frontier = <<>>
    /\ action_iterator = 0
    /\ search_result = <<>>
    /\ graphs = <<>>
    /\ dtg_frontier = {}
    /\ dependent_transitions = <<>>
    /\ NoHeuristic
    /\ AuxIdle
    /\ NoWeightedSum
    /\ NoQueues
    /\ search_node = SearchNode(<<>>, Puzzles[m_puzzle].m_initial_state)
    /\ chain_actions = <<>>
    /\ last_backtrack = <<>>
    /\ NoIterator

\* state = world.getNextState(state, action);
\* search_node = std::make_shared<SearchNode>(search_node, state)
ChainExtend ==
    /\ pc = "search_node"
    /\ Len(chain_actions) < MaxChain
    /\ \E action \in Actions :
          \E r \in {getNextState(Puz, Scratch, search_node.state, action)} :
             /\ search_node' = SearchNode(<<search_node>>, r.state)
             /\ chain_actions' = Append(chain_actions, action)
             /\ m_pushing_frontier' = r.scratch.frontier
             /\ m_pushed_object_idxs' = r.scratch.idxs
             /\ m_pushed_objects' = r.scratch.pushed
    /\ UNCHANGED <<m_puzzle, pc, state, last_call, last_goal_check, search_vars,
                   dtg_vars, rgd_vars, aux_vars, sum_vars, queue_vars, iterator_vars, repeat_vars,
                   last_backtrack>>

\* search_node = std::make_shared<SearchNode>(search_node, state) with a
\* state of the caller's choice; NUM_ACTIONS stands for "no action".
ChainAppend ==
    /\ pc = "search_node"
    /\ Len(chain_actions) < MaxChain
    /\ \E s \in ReachableStates[m_puzzle] :
          search_node' = SearchNode(<<search_node>>, s)
    /\ chain_actions' = Append(chain_actions, NUM_ACTIONS)
    /\ UNCHANGED <<old_vars, pc, sum_vars, queue_vars, iterator_vars, repeat_vars,
                   last_backtrack>>

\* plan = backtrackPlan(world, search_node), or (world, search_node->parent)
ChainBacktrack ==
    /\ pc = "search_node"
    /\ \E end_node \in {search_node} \cup {search_node.parent[k] : k \in DOMAIN search_node.parent} :
          \E b \in {backtrackPlan(Puz, Scratch, end_node)} :
             /\ last_backtrack' = << [end_node |-> end_node, plan |-> b.plan,
                                      thrown |-> b.thrown] >>
             /\ m_pushing_frontier' = b.scratch.frontier
             /\ m_pushed_object_idxs' = b.scratch.idxs
             /\ m_pushed_objects' = b.scratch.pushed
    /\ pc' = "backtracked"
    /\ UNCHANGED <<m_puzzle, state, last_call, last_goal_check, search_vars,
                   dtg_vars, rgd_vars, aux_vars, sum_vars, queue_vars,
                   iterator_vars, repeat_vars, search_node, chain_actions>>

BacktrackNext == ChainExtend \/ ChainAppend \/ ChainBacktrack

SpecBacktrack == BacktrackInit /\ [][BacktrackNext]_vars

\* The states of the chain that ends in `node`, root first.
RECURSIVE ChainStates(_)
ChainStates(node) ==
    IF node.parent = <<>> THEN <<node.state>>
    ELSE Append(ChainStates(node.parent[1]), node.state)

\* Some action takes the k-th state of the chain to the next one.
Producible(states, k) ==
    \E action \in Actions :
        getNextState(Puz, FreshScratch(Puz), states[k], action).state = states[k + 1]

\* What C27 says of a backtrackPlan call that was given a chain with these
\* states and returned `plan`.
PlanRetracesChain(states, plan, thrown) ==
    (\A k \in 1 .. Len(states) - 1 : Producible(states, k)) =>
        /\ ~ thrown
        /\ Len(plan) = Len(states) - 1
        /\ \A k \in 0 .. Len(plan) :
              RunPlan(Puz, FreshScratch(Puz), states[1], SubSeq(plan, 1, k))
                  = states[k + 1]
        /\ (/\ \A k \in 1 .. Len(plan) : states[k] # states[k + 1]
            /\ \A k \in 1 .. Len(plan) : chain_actions[k] # NUM_ACTIONS)
               => plan = SubSeq(chain_actions, 1, Len(plan))

\* C27: given a chain in which every node's state is getNextState of its
\* parent's state for some action, backtrackPlan returns one action per
\* parent link, root first, whose replay from the root's state passes
\* through the state of every node in order and ends in the state of the
\* end node; for a root node the plan is empty; and when every step changed
\* the state the plan is the actions that made the chain.
C27_PlanRetracesChain ==
    \A n \in DOMAIN last_backtrack :
        PlanRetracesChain(ChainStates(last_backtrack[n].end_node),
                          last_backtrack[n].plan, last_backtrack[n].thrown)

\* C27 witness: backtrackPlan returned RIGHT, DOWN, RIGHT for a chain made
\* with these actions, each of which changed the state.
C27_Witness ==
    \E n \in DOMAIN last_backtrack :
        /\ chain_actions = <<RIGHT, DOWN, RIGHT>>
        /\ last_backtrack[n].end_node = search_node
        /\ last_backtrack[n].plan = chain_actions
        /\ \A k \in 1 .. 3 : ChainStates(search_node)[k] # ChainStates(search_node)[k + 1]

\* C28: backtrackPlan throws, and returns no plan, exactly when some node
\* of the chain has a state that no action produces from its parent's
\* state; it does not throw on a chain whose every node was made from a
\* getNextState result on its parent's state, as the nodes of
\* best_first_search are.
C28_ThrowsOnBrokenChain ==
    \A n \in DOMAIN last_backtrack :
        /\ last_backtrack[n].thrown =
               (\E k \in 1 .. Len(ChainStates(last_backtrack[n].end_node)) - 1 :
                   ~ Producible(ChainStates(last_backtrack[n].end_node), k))
        /\ last_backtrack[n].thrown => last_backtrack[n].plan = <<>>
        /\ (\A k \in DOMAIN chain_actions : chain_actions[k] # NUM_ACTIONS)
              => ~ last_backtrack[n].thrown

\* C28 witness: backtrackPlan has thrown on a chain of three links of which
\* only the first cannot be produced by an action.
C28_Witness ==
    \E n \in DOMAIN last_backtrack :
        /\ last_backtrack[n].thrown
        /\ last_backtrack[n].end_node = search_node
        /\ Len(chain_actions) = 3
        /\ chain_actions[1] = NUM_ACTIONS
        /\ chain_actions[2] # NUM_ACTIONS
        /\ chain_actions[3] # NUM_ACTIONS

\* Under SpecSearch the error of backtrackPlan never ends a search.
SearchNeverThrows == search_result.kind # "thrown"

----------------------------------------------------------------------------
(* RandomActionIterator (random_action_iterator.cc) and SpecIterator: a    *)
(* caller constructs an iterator with 1..MaxActionGroups groups and calls  *)
(* next() up to twice that number of times and once more.  What            *)
(* std::shuffle makes of a group with the std::default_random_engine is    *)
(* implementation-defined: each group is some order of the four actions.   *)
(* m_next_action_group is the index of the group it points to.             *)

MaxActionGroups == 2

\* for (auto& action_group : m_action_groups) ... std::shuffle(...)
ShuffledGroups(num_action_groups) == [1 .. num_action_groups -> ActionGroups]

IteratorNext_StayAtEnd(i, num_action_groups) ==
    IF i + 1 = num_action_groups THEN i ELSE i + 1

\* m_next_action_group++; if (m_next_action_group == m_action_groups.end())
\* m_next_action_group = m_action_groups.begin()
IteratorNext(i, num_action_groups) ==
    IF i + 1 = num_action_groups THEN 0 ELSE i + 1

IteratorInit ==
    /\ OldIdle
    /\ NoWeightedSum
    /\ NoQueues
    /\ NoChain
    /\ NoIterator
    /\ pc = "iterator_new"

\* RandomActionIterator(num_action_groups)
IteratorConstruct ==
    /\ pc = "iterator_new"
    /\ \E num_action_groups \in 1 .. MaxActionGroups :
          m_action_groups' \in ShuffledGroups(num_action_groups)
    /\ action_iterator' = 0
    /\ pc' = "iterator_ready"
    /\ UNCHANGED <<puzzle_vars, state, last_call, last_goal_check, visited, frontier,
                   search_result, dtg_vars, rgd_vars, aux_vars, sum_vars, queue_vars,
                   chain_vars, returned_groups, repeat_vars>>

\* action_iter.next()
IteratorCallNext ==
    /\ pc = "iterator_ready"
    /\ Len(returned_groups) < 2 * Len(m_action_groups) + 1
    /\ action_iterator' = IteratorNext(action_iterator, Len(m_action_groups))
    /\ returned_groups' = Append(returned_groups,
                                 [index |-> action_iterator',
                                  group |-> m_action_groups[action_iterator' + 1]])
    /\ UNCHANGED <<puzzle_vars, pc, state, last_call, last_goal_check, visited,
                   frontier, search_result, dtg_vars, rgd_vars, aux_vars, sum_vars,
                   queue_vars, chain_vars, m_action_groups, repeat_vars>>

IteratorNextStep == IteratorConstruct \/ IteratorCallNext

SpecIterator == IteratorInit /\ [][IteratorNextStep]_vars

\* C29: every vector next() returns holds each of the four actions once;
\* the vector returned num_action_groups calls later is the same one; and
\* any num_action_groups successive calls return every group built by the
\* constructor, each once.
C29_GroupsCycle ==
    /\ \A k \in DOMAIN returned_groups :
          /\ Len(returned_groups[k].group) = NUM_ACTIONS
          /\ \A action \in Actions :
                Cardinality({j \in 1 .. NUM_ACTIONS :
                                returned_groups[k].group[j] = action}) = 1
          /\ returned_groups[k].group = m_action_groups[returned_groups[k].index + 1]
    /\ \A k \in DOMAIN returned_groups :
          k + Len(m_action_groups) \in DOMAIN returned_groups =>
              returned_groups[k + Len(m_action_groups)] = returned_groups[k]
    /\ \A k \in DOMAIN returned_groups :
          k + Len(m_action_groups) - 1 \in DOMAIN returned_groups =>
              \A i \in 0 .. Len(m_action_groups) - 1 :
                  Cardinality({j \in k .. k + Len(m_action_groups) - 1 :
                                  returned_groups[j].index = i}) = 1

\* C29 witness: an iterator with two groups in different orders has
\* returned them alternately in five calls.
C29_Witness ==
    /\ Len(m_action_groups) = 2
    /\ m_action_groups[1] # m_action_groups[2]
    /\ Len(returned_groups) = 5
    /\ returned_groups[5].group = returned_groups[1].group
    /\ returned_groups[4].group # returned_groups[5].group

----------------------------------------------------------------------------
(* best_first_search as one call (best_first_search.h:45-89), with a       *)
(* heuristic that returns a fixed cost for each state and the action       *)
(* groups that RandomActionIterator() builds from its seed.  Which of      *)
(* several nodes of the least priority a queue returns is fixed by the     *)
(* queue's implementation: FrontierTop is one fixed choice among them.     *)
(* acc = [frontier, visited, iterator, scratch].                           *)

\* frontier.top()
FrontierTop(q) == CHOOSE node \in QueueTops(q) : TRUE

\* heuristic.estimate_cost_to_goal(state) for each child created
ChildCosts(h, children) == [k \in DOMAIN children |-> h[children[k]]]

\* The number of children pushed: all but the one that satisfies the goal.
NumPushed(e) == IF e.found THEN Len(e.children) - 1 ELSE Len(e.children)

\* return backtrackPlan(puzzle, node)
ReturnPlan(b, q, vis) ==
    [result |-> IF b.thrown THEN [kind |-> "thrown", plan |-> <<>>]
                ELSE [kind |-> "plan", plan |-> b.plan],
     frontier |-> q, visited |-> vis, scratch |-> b.scratch]

RECURSIVE SearchLoop(_, _, _, _)

\* The end of one iteration of the while loop, after the pushes.
AfterPushes(puz, h, groups, parent_node, iterator, e, q, vis) ==
    IF e.found
    THEN ReturnPlan(backtrackPlan(puz, e.scratch,
                        SearchNode(<<parent_node>>, e.children[Len(e.children)])),
                    q, vis)
    ELSE SearchLoop(puz, h, groups,
                    [frontier |-> q, visited |-> vis, iterator |-> iterator,
                     scratch |-> e.scratch])

\* The pushes of one iteration of the while loop.
AfterExpand(puz, h, groups, acc, parent_node, iterator, e) ==
    AfterPushes(puz, h, groups, parent_node, iterator, e,
                PushChildren(QueuePop(acc.frontier, parent_node), parent_node,
                             e.children, ChildCosts(h, e.children), 1, NumPushed(e)),
                acc.visited \cup {e.children[i] : i \in 1 .. NumPushed(e)})

\* while (!frontier.empty()) ...; return std::nullopt
SearchLoop(puz, h, groups, acc) ==
    IF QueueEmpty(acc.frontier)
    THEN [result |-> [kind |-> "nullopt", plan |-> <<>>],
          frontier |-> acc.frontier, visited |-> acc.visited, scratch |-> acc.scratch]
    ELSE AfterExpand(puz, h, groups, acc, FrontierTop(acc.frontier),
                     IteratorNext(acc.iterator, Len(groups)),
                     ExpandFrom(puz, acc.scratch, FrontierTop(acc.frontier).state,
                                groups[IteratorNext(acc.iterator, Len(groups)) + 1],
                                1, acc.visited, <<>>))

\* best_first_search(puzzle, heuristic, frontier, visited)
best_first_search(puz, scratch, h, groups, q, vis) ==
    IF satisfiesGoal(puz, puz.m_initial_state)
    THEN [result |-> [kind |-> "plan", plan |-> <<>>],
          frontier |-> q, visited |-> vis, scratch |-> scratch]
    ELSE SearchLoop(puz, h, groups,
                    [frontier |-> QueuePush(QueueClear(q),
                                            SearchNode(<<>>, puz.m_initial_state),
                                            h[puz.m_initial_state]),
                     visited |-> ClearVisited(vis) \cup {puz.m_initial_state},
                     iterator |-> 0, scratch |-> scratch])

----------------------------------------------------------------------------
(* SpecRepeat: a caller holds a puzzle, a heuristic, a queue and a         *)
(* StateSet, and calls best_first_search with them up to MaxSearches       *)
(* times; between two calls it may use the queue and the set for a search  *)
(* on another puzzle, which leaves some state in both.                     *)

MaxSearches == 2

\* The heuristics of SpecRepeat: cost 0 for at most one state, 1 for the others.
RepeatHeuristics(p) ==
    {[s \in ReachableStates[p] |-> IF s \in low THEN 0 ELSE 1] :
        low \in {{}} \cup {{s} : s \in ReachableStates[p]}}

\* Two orders that the shuffles of a group may give.
RepeatGroups == [1 .. 2 -> {<<LEFT, RIGHT, UP, DOWN>>, <<DOWN, UP, RIGHT, LEFT>>,
                            <<RIGHT, DOWN, LEFT, UP>>}]

RepeatInit ==
    /\ m_puzzle \in SearchPuzzleIds
    /\ m_pushing_frontier = init_pushing_frontier(Puzzles[m_puzzle])
    /\ m_pushed_object_idxs = init_pushed_object_idxs(Puzzles[m_puzzle])
    /\ m_pushed_objects = init_pushed_objects(Puzzles[m_puzzle])
    /\ pc = "repeat"
    /\ state = <<>>
    /\ last_call = <<>>
    /\ last_goal_check = <<>>
    /\ visited = {}
    /\ \E kind \in QueueKinds : frontier = NewQueue(kind)
    /\ action_iterator = 0
    /\ search_result = <<>>
    /\ graphs = <<>>
    /\ dtg_frontier = {}
    /\ dependent_transitions = <<>>
    /\ NoHeuristic
    /\ AuxIdle
    /\ NoWeightedSum
    /\ NoQueues
    /\ NoChain
    /\ m_action_groups \in RepeatGroups
    /\ returned_groups = <<>>
    /\ heuristic_costs \in RepeatHeuristics(m_puzzle)
    /\ searches = <<>>

\* best_first_search(puzzle, heuristic, frontier, visited)
RepeatSearch ==
    /\ pc = "repeat"
    /\ Len(searches) < MaxSearches
    /\ \E r \in {best_first_search(Puz, Scratch, heuristic_costs, m_action_groups,
                                   frontier, visited)} :
          /\ frontier' = r.frontier
          /\ visited' = r.visited
          /\ search_result' = r.result
          /\ m_pushing_frontier' = r.scratch.frontier
          /\ m_pushed_object_idxs' = r.scratch.idxs
          /\ m_pushed_objects' = r.scratch.pushed
          /\ searches' = Append(searches, [result |-> r.result, visited |-> r.visited,
                                           frontier |-> r.frontier,
                                           visited_before |-> visited])
    /\ UNCHANGED <<m_puzzle, pc, state, last_call, last_goal_check, action_iterator,
                   dtg_vars, rgd_vars, aux_vars, sum_vars, queue_vars, chain_vars,
                   iterator_vars, heuristic_costs>>

\* A search on another puzzle with the same frontier and visited set,
\* after a search on this one.
RepeatOtherSearch ==
    /\ pc = "repeat"
    /\ Len(searches) \in 1 .. MaxSearches - 1
    /\ visited = searches[Len(searches)].visited
    /\ \E stale \in ReachableStates[m_puzzle] :
          /\ visited' = {stale}
          /\ frontier' = QueueInsert(QueueClear(frontier), SearchNode(<<>>, stale), 0)
    /\ UNCHANGED <<puzzle_vars, pc, state, last_call, last_goal_check, action_iterator,
                   search_result, dtg_vars, rgd_vars, aux_vars, sum_vars, queue_vars,
                   chain_vars, iterator_vars, repeat_vars>>

RepeatNext == RepeatSearch \/ RepeatOtherSearch

SpecRepeat == RepeatInit /\ [][RepeatNext]_vars

\* C30: two calls of best_first_search with the same puzzle, queue and
\* heuristic return the same plan, or both none, and leave the same visited
\* set, whatever searches were run before either.
C30_SearchIsReproducible ==
    \A i, j \in DOMAIN searches :
        /\ searches[i].result = searches[j].result
        /\ searches[i].visited = searches[j].visited

\* The part of C30 that holds: the calls return the same plan, or both
\* none; and they leave the same visited set and the same frontier when the
\* initial state does not satisfy the goal.
ReturnsAreReproducible ==
    \A i, j \in DOMAIN searches :
        /\ searches[i].result = searches[j].result
        /\ ~ satisfiesGoal(Puz, Puz.m_initial_state) =>
              /\ searches[i].visited = searches[j].visited
              /\ searches[i].frontier = searches[j].frontier

----------------------------------------------------------------------------
(* What a call of best_first_search leaves in a queue and a StateSet that  *)
(* the caller hands over non-empty, checked under SpecRepeat.              *)

\* The same call with a newly constructed queue of the same kind and an
\* empty StateSet: all it leaves in them was put there by this search.
SearchFromEmpty ==
    best_first_search(Puz, Scratch, heuristic_costs, m_action_groups,
                      NewQueue(frontier.kind), {})

\* C31: whatever the frontier and the visited set held before a call of
\* best_first_search is gone when the call returns: they hold what the same
\* search leaves when it is given an empty queue and an empty set.
C31_ClearedOnEveryCall ==
    \A i \in DOMAIN searches :
        /\ searches[i].visited = SearchFromEmpty.visited
        /\ searches[i].frontier = SearchFromEmpty.frontier

\* The part of C31 that holds: the containers are cleared by every call on
\* a puzzle whose initial state does not satisfy the goal.
ClearedUnlessSolvedAtStart ==
    ~ satisfiesGoal(Puz, Puz.m_initial_state) => C31_ClearedOnEveryCall

----------------------------------------------------------------------------
(* The graphs of build_feasible_movement_graphs against the transitions    *)
(* that the justification rule of the builder yields, under SpecDTG.  An   *)
(* edge is a Transition record.                                            *)

\* The edges of the graphs, as transitions.
EdgesOf(gs) ==
    UNION {UNION {{Transition(i, p, q) : q \in gs[i][p]} : p \in DOMAIN gs[i]}
                   : i \in DOMAIN gs}

\* The nodes that a set of edges gives each object: its initial position
\* and the end position of each of its edges.
NodesOf(puz, E) ==
    {<<i, puz.m_initial_state[i]>> : i \in 0 .. puz.m_num_objects - 1}
        \cup {<<e.object_id, e.end_position>> : e \in E}

\* Whether the edges E justify the movement of the object from the position
\* with the action: the agent moves by itself, another object needs a
\* pusher in contact whose own movement is an edge.
Justified(puz, E, object_id, position, action) ==
    /\ position \notin puz.static_collisions[action][object_id]
    /\ \/ object_id = AGENT
       \/ \E pusher_id \in (0 .. puz.m_num_objects - 1) \ {object_id} :
             \E relative_position \in puz.dynamic_collisions[action][pusher_id][object_id] :
                 Transition(pusher_id, position + relative_position,
                            position + relative_position + ACTION_DISPLACEMENTS[action])
                     \in E

\* One round of the rule over the nodes of E.
JustifiedEdges(puz, E) ==
    {Transition(n[1], n[2], n[2] + ACTION_DISPLACEMENTS[action]) :
        <<n, action>> \in {na \in NodesOf(puz, E) \X Actions :
                              Justified(puz, E, na[1][1], na[1][2], na[2])}}

\* The least set of edges closed under the rule.
RECURSIVE LeastEdgesFrom(_, _)
LeastEdgesFrom(puz, E) ==
    IF JustifiedEdges(puz, E) \subseteq E THEN E
    ELSE LeastEdgesFrom(puz, E \cup JustifiedEdges(puz, E))

LeastEdges == [p \in DTGPuzzleIds |-> LeastEdgesFrom(Puzzles[p], {})]

\* C32: in whatever order the entries are taken from the frontier and the
\* relative positions are iterated, the builder only adds edges of the
\* least set closed under the justification rule, and the graphs it returns
\* hold exactly that set.
C32_EdgesAreOrderIndependent ==
    /\ pc \in {"expand", "built"} => EdgesOf(graphs) \subseteq LeastEdges[m_puzzle]
    /\ pc = "built" => EdgesOf(graphs) = LeastEdges[m_puzzle]

\* The graphs were returned for a puzzle in which an object other than the
\* agent pushes a third one, so that an edge was justified by an edge that
\* was itself justified by the agent's.
C32_Witness ==
    /\ pc = "built"
    /\ \E e \in EdgesOf(graphs), action \in Actions :
          /\ e.object_id # AGENT
          /\ e.end_position = e.start_position + ACTION_DISPLACEMENTS[action]
          /\ \E pusher_id \in (1 .. Puz.m_num_objects - 1) \ {e.object_id} :
                \E rel \in Puz.dynamic_collisions[action][pusher_id][e.object_id] :
                    HasEdge(graphs[pusher_id], e.start_position + rel,
                            e.start_position + rel + ACTION_DISPLACEMENTS[action])

----------------------------------------------------------------------------
(* The shape of the graphs during and after the construction, under        *)
(* SpecDTG.                                                                *)

\* The displacements of the four actions, as positions.
Displacements == {point_to_position(POINT_DISPLACEMENTS[action]) : action \in Actions}

\* The initial position of each object and the end position of each edge
\* are nodes of the object's graph, and each edge spans one displacement.
GraphsAreWellFormed ==
    \A i \in DOMAIN graphs :
        /\ Puz.m_initial_state[i] \in DOMAIN graphs[i]
        /\ \A p \in DOMAIN graphs[i] :
              \A q \in graphs[i][p] :
                  /\ q \in DOMAIN graphs[i]
                  /\ q - p \in Displacements

\* A step of the construction keeps every node and every edge.
GraphsGrow ==
    \A i \in DOMAIN graphs :
        /\ i \in DOMAIN graphs'
        /\ \A p \in DOMAIN graphs[i] :
              /\ p \in DOMAIN graphs'[i]
              /\ graphs[i][p] \subseteq graphs'[i][p]

\* A step of the construction puts on the frontier only pairs that were not
\* nodes before, which then are nodes; a pair that is a node was on the
\* frontier before, so none enters twice.  One iteration of the while loop
\* takes one entry off and does not put it back.
FrontierEntersOnce ==
    /\ \A e \in dtg_frontier' \ dtg_frontier :
          /\ e[1] \in DOMAIN graphs => e[2] \notin DOMAIN graphs[e[1]]
          /\ e[2] \in DOMAIN graphs'[e[1]]
    /\ pc = "expand" /\ pc' = "expand" => Cardinality(dtg_frontier \ dtg_frontier') = 1

\* C33: at every point of the construction and in the graphs returned, the
\* initial position and the end of every edge are nodes and every edge
\* spans one of the four displacements; every step keeps the nodes and
\* edges there were; and a pair enters the frontier only when it becomes a
\* node, hence at most once.
C33_GraphsAreWellFormed ==
    /\ [](pc \in {"expand", "built"} => GraphsAreWellFormed)
    /\ [](pc = "expand" => \A e \in dtg_frontier : e[2] \in DOMAIN graphs[e[1]])
    /\ [][GraphsGrow /\ FrontierEntersOnce]_vars

\* The graphs were returned with a node that has no successor and a node
\* that has one, in the graph of an object other than the agent.
C33_Witness ==
    /\ pc = "built"
    /\ \E i \in DOMAIN graphs \ {AGENT} :
          /\ \E p \in DOMAIN graphs[i] : graphs[i][p] = {}
          /\ \E p \in DOMAIN graphs[i] : graphs[i][p] # {}

----------------------------------------------------------------------------
(* Termination of build_feasible_movement_graphs.  The builder is one      *)
(* thread that nothing suspends: each iteration of its while loop and the  *)
(* return after it are executed when control is there.  Every puzzle of    *)
(* the catalogue is enclosed by the perimeter wall that the constructor    *)
(* of PushWorldPuzzle adds.                                                *)

\* The pairs that can be on the frontier: an object and a cell of the grid.
FrontierPairs(puz) ==
    {<<i, point_to_position(pt)>> : i \in 0 .. puz.m_num_objects - 1,
                                    pt \in GridPoints(puz)}

\* while (!frontier.empty()) with the one effect of its body that every
\* iteration has: the frontier changes, since the entry taken is erased.
\* Every step of DTGExpand is such a step, and DTGExpand can take a step
\* whenever the loop condition holds.
BuildLoopRuns ==
    /\ pc = "expand"
    /\ dtg_frontier # {}
    /\ dtg_frontier' \in SUBSET FrontierPairs(Puz)

SpecDTGFair ==
    /\ DTGInit
    /\ [][DTGNext]_vars
    /\ WF_vars(DTGBegin)
    /\ WF_dtg_frontier(BuildLoopRuns)
    /\ WF_vars(DTGReturn)

\* Two transitions each recorded as a dependent of the other, which
\* happens during the construction.
CyclicDependency ==
    \E t \in DOMAIN dependent_transitions :
        \E k \in DOMAIN dependent_transitions[t] :
            LET u == dependent_transitions[t][k]
            IN /\ u \in DOMAIN dependent_transitions
               /\ \E j \in DOMAIN dependent_transitions[u] :
                     dependent_transitions[u][j] = t

\* C34: on every puzzle enclosed by walls, in whatever order the frontier
\* is processed, the frontier of build_feasible_movement_graphs becomes
\* empty and the function returns.
C34_BuilderTerminates == <>(pc = "built")

\* The builder returned on a puzzle in which two objects push each other,
\* with the two transitions that justify each other in its graphs.
C34_Witness ==
    /\ pc = "built"
    /\ \E i, j \in DOMAIN graphs \ {AGENT}, action \in Actions :
          /\ i # j
          /\ \E p \in DOMAIN graphs[i], rel \in Puz.dynamic_collisions[action][j][i] :
                /\ HasEdge(graphs[i], p, p + ACTION_DISPLACEMENTS[action])
                /\ HasEdge(graphs[j], p + rel, p + rel + ACTION_DISPLACEMENTS[action])
                /\ \E rel2 \in Puz.dynamic_collisions[action][i][j] : rel + rel2 = 0

----------------------------------------------------------------------------
(* The caches of PathDistances, under SpecPaths *)

\* Every distance that the SingleSourcePathDistances of a target has
\* recorded for a position is the length of a shortest path of the graph
\* from the position to the target.
CachedDistancesAreShortest ==
    \A target \in DOMAIN path_distances.m_distances :
        \A position \in DOMAIN path_distances.m_distances[target].m_distances :
            path_distances.m_distances[target].m_distances[position]
                = ShortestPath(path_graph, position, target)

\* C35: after any sequence of getDistance calls on one PathDistances
\* object, every distance it has cached is the shortest-path distance, the
\* latest call returned what a newly constructed object returns for the
\* same query, and so does every query made next, the one just made
\* included.
C35_CacheIsExact ==
    pc = "paths_ready" =>
        /\ CachedDistancesAreShortest
        /\ \A k \in DOMAIN last_distance :
              last_distance[k].value
                  = PathGetDistance(NewPathDistances(path_graph),
                                    last_distance[k].source, last_distance[k].target).value
        /\ \A source \in QueriedPositions, target \in QueriedPositions :
              PathGetDistance(path_distances, source, target).value
                  = PathGetDistance(NewPathDistances(path_graph), source, target).value

\* The object has answered queries that expanded one search by two depths
\* and ran another search to the end, and its latest call returned infinity
\* for a target that is a node.
C35_Witness ==
    /\ pc = "paths_ready"
    /\ \E target \in DOMAIN path_distances.m_distances :
          \E position \in DOMAIN path_distances.m_distances[target].m_distances :
              path_distances.m_distances[target].m_distances[position] = 2
    /\ \E target \in DOMAIN path_distances.m_distances :
          /\ path_distances.m_distances[target].m_frontier = {}
          /\ Cardinality(DOMAIN path_distances.m_distances[target].m_distances) >= 2
    /\ \E k \in DOMAIN last_distance :
          /\ last_distance[k].value = Infinity
          /\ last_distance[k].target \in DOMAIN path_distances.m_distances

----------------------------------------------------------------------------
(* SpecNRGD: solve(puzzle, "N+RGD") of run_planner.cc: best_first_search   *)
(* with a FibonacciPriorityQueue and the WeightedSumHeuristic of a         *)
(* NoveltyHeuristic weighted by 1e6 and a RecursiveGraphDistanceHeuristic  *)
(* weighted by 1.  One step is the code up to the while loop, one          *)
(* iteration of the loop, or the return after it; last_sum keeps every     *)
(* call of the heuristic.  The model follows a search for its first        *)
(* MaxEvaluations calls.                                                   *)

\* 1e6f
NoveltyWeight == 1000000

MaxEvaluations == 6

\* heuristics_and_weights of solve()
NRGDHeuristicsAndWeights ==
    <<[heuristic |-> 1, weight |-> NoveltyWeight], [heuristic |-> 2, weight |-> 1]>>

\* The RelativeState that getNextState returned for a child of the parent:
\* the objects that moved are those whose position changed.
RelativeTo(parent_state, child_state) ==
    [state |-> child_state,
     moved_object_indices |->
         SortedSeq({i \in DOMAIN child_state : child_state[i] # parent_state[i]})]

\* What the call r of the weighted sum on rs adds to acc =
\* [heuristics, sums, prios]: the children as the call leaves them, the
\* record of the call and the priority it returned.
NRGDRecord(acc, rs, r) ==
    [heuristics |-> r.heuristics,
     sums |-> Append(acc.sums, [relative_state |-> rs, cost |-> r.cost,
                                novelty |-> r.calls[1].cost, rgd |-> r.calls[2].cost]),
     prios |-> Append(acc.prios, r.cost)]

\* heuristic.estimate_cost_to_goal(state) for the first n children, in order
RECURSIVE NRGDEvaluate(_, _, _, _, _, _)
NRGDEvaluate(acc, list, parent_state, children, k, n) ==
    IF k > n THEN acc
    ELSE NRGDEvaluate(
             NRGDRecord(acc, RelativeTo(parent_state, children[k]),
                        weighted_sum_estimate_cost_to_goal(acc.heuristics, list,
                            RelativeTo(parent_state, children[k]))),
             list, parent_state, children, k + 1, n)

NRGDInit ==
    /\ m_puzzle \in RGDPuzzleIds
    /\ m_pushing_frontier = init_pushing_frontier(Puzzles[m_puzzle])
    /\ m_pushed_object_idxs = init_pushed_object_idxs(Puzzles[m_puzzle])
    /\ m_pushed_objects = init_pushed_objects(Puzzles[m_puzzle])
    /\ pc = "nrgd_new"
    /\ state = Puzzles[m_puzzle].m_initial_state
    /\ last_call = <<>>
    /\ last_goal_check = <<>>
    /\ visited = {}
    /\ frontier = NewQueue("fibonacci")
    /\ action_iterator = 0
    /\ search_result = [kind |-> "running", plan |-> <<>>]
    /\ graphs = <<>>
    /\ dtg_frontier = {}
    /\ dependent_transitions = <<>>
    /\ NoHeuristic
    /\ AuxIdle
    /\ ExtIdle

\* solve(): the two heuristics and their sum are constructed, and
\* best_first_search runs up to its loop.
NRGDBegin ==
    /\ pc = "nrgd_new"
    /\ m_heuristics_and_weights' = NRGDHeuristicsAndWeights
    /\ IF satisfiesGoal(Puz, Puz.m_initial_state)
       THEN /\ pc' = "nrgd_done"
            /\ search_result' = [kind |-> "plan", plan |-> <<>>]
            /\ heuristics' = <<NoveltyHeuristic(Puz.m_num_objects),
                               RecursiveGraphDistanceHeuristic(Puz, TRUE, FALSE)>>
            /\ UNCHANGED <<last_sum, visited, frontier>>
       ELSE /\ pc' = "nrgd"
            /\ \E reversed \in BOOLEAN :
                  \E ev \in {NRGDEvaluate(
                                [heuristics |->
                                     <<NoveltyHeuristic(Puz.m_num_objects),
                                       RecursiveGraphDistanceHeuristic(Puz, TRUE, reversed)>>,
                                 sums |-> <<>>, prios |-> <<>>],
                                NRGDHeuristicsAndWeights,
                                [i \in DOMAIN Puz.m_initial_state |-> 0],
                                <<Puz.m_initial_state>>, 1, 1)} :
                     /\ heuristics' = ev.heuristics
                     /\ last_sum' = ev.sums
                     /\ visited' = ClearVisited(visited) \cup {Puz.m_initial_state}
                     /\ frontier' = QueuePush(QueueClear(frontier),
                                              SearchNode(<<>>, Puz.m_initial_state),
                                              ev.prios[1])
            /\ UNCHANGED search_result
    /\ UNCHANGED <<puzzle_vars, state, last_call, last_goal_check,
                   action_iterator, dtg_vars, rgd_vars, aux_vars,
                   queue_vars, chain_vars, iterator_vars, repeat_vars>>

\* One iteration of the while loop.
NRGDIterate ==
    /\ pc = "nrgd"
    /\ ~QueueEmpty(frontier)
    /\ Len(last_sum) < MaxEvaluations
    /\ \E parent_node \in QueueTops(frontier), group \in ActionGroups :
          \E e \in {ExpandFrom(Puz, Scratch, parent_node.state, group, 1, visited, <<>>)} :
             \E ev \in {NRGDEvaluate([heuristics |-> heuristics, sums |-> last_sum,
                                      prios |-> <<>>],
                                     m_heuristics_and_weights, parent_node.state,
                                     e.children, 1, NumPushed(e))} :
                /\ heuristics' = ev.heuristics
                /\ last_sum' = ev.sums
                /\ frontier' = PushChildren(QueuePop(frontier, parent_node), parent_node,
                                            e.children, ev.prios, 1, NumPushed(e))
                /\ visited' = visited \cup {e.children[i] : i \in 1 .. NumPushed(e)}
                /\ IF e.found
                   THEN \E b \in {backtrackPlan(Puz, e.scratch,
                                      SearchNode(<<parent_node>>,
                                                 e.children[Len(e.children)]))} :
                           /\ search_result' =
                                 IF b.thrown THEN [kind |-> "thrown", plan |-> <<>>]
                                 ELSE [kind |-> "plan", plan |-> b.plan]
                           /\ pc' = "nrgd_done"
                           /\ m_pushing_frontier' = b.scratch.frontier
                           /\ m_pushed_object_idxs' = b.scratch.idxs
                           /\ m_pushed_objects' = b.scratch.pushed
                   ELSE /\ pc' = "nrgd"
                        /\ m_pushing_frontier' = e.scratch.frontier
                        /\ m_pushed_object_idxs' = e.scratch.idxs
                        /\ m_pushed_objects' = e.scratch.pushed
                        /\ UNCHANGED search_result
    /\ action_iterator' = NextGroupIndex(action_iterator)
    /\ UNCHANGED <<m_puzzle, state, last_call, last_goal_check, dtg_vars, rgd_vars,
                   aux_vars, m_heuristics_and_weights, queue_vars, chain_vars,
                   iterator_vars, repeat_vars>>

\* return std::nullopt
NRGDReturnNone ==
    /\ pc = "nrgd"
    /\ QueueEmpty(frontier)
    /\ search_result' = [kind |-> "nullopt", plan |-> <<>>]
    /\ pc' = "nrgd_done"
    /\ UNCHANGED <<puzzle_vars, state, last_call, last_goal_check, visited, frontier,
                   action_iterator, dtg_vars, rgd_vars, aux_vars, ext_vars>>

NRGDNext == NRGDBegin \/ NRGDIterate \/ NRGDReturnNone

SpecNRGD == NRGDInit /\ [][NRGDNext]_vars

\* C36: of two states passed to the N+RGD heuristic the one with the lower
\* novelty gets the lower priority, and of two states with the same novelty
\* the one with the lower RGD cost gets the lower priority, whatever costs
\* the RGD heuristic returned, infinity included.
C36_PriorityIsLexicographic ==
    \A i, j \in DOMAIN last_sum :
        /\ last_sum[i].novelty < last_sum[j].novelty => last_sum[i].cost < last_sum[j].cost
        /\ last_sum[i].novelty = last_sum[j].novelty /\ last_sum[i].rgd < last_sum[j].rgd
              => last_sum[i].cost < last_sum[j].cost

\* The part of C36 that holds: the order is lexicographic among the states
\* whose RGD cost is finite, and a state whose RGD cost is infinite has an
\* infinite priority whatever its novelty.
LexicographicOnFiniteCosts ==
    \A i, j \in DOMAIN last_sum :
        /\ last_sum[i].rgd = Infinity => last_sum[i].cost = Infinity
        /\ last_sum[i].rgd # Infinity /\ last_sum[j].rgd # Infinity =>
              /\ last_sum[i].rgd \in Nat
              /\ last_sum[i].novelty \in 1 .. 3
              /\ last_sum[i].novelty < last_sum[j].novelty
                    => last_sum[i].cost < last_sum[j].cost
              /\ last_sum[i].novelty = last_sum[j].novelty
                 /\ last_sum[i].rgd < last_sum[j].rgd
                    => last_sum[i].cost < last_sum[j].cost

----------------------------------------------------------------------------
(* The members of BucketPriorityQueue, under SpecQueue *)

\* The number of elements in the buckets of the priorities ps.
RECURSIVE BucketTotal(_, _)
BucketTotal(m_elements, ps) ==
    IF ps = {} THEN 0
    ELSE Len(m_elements[CHOOSE x \in ps : TRUE])
             + BucketTotal(m_elements, ps \ {CHOOSE x \in ps : TRUE})

\* m_num_elements counts the elements of all buckets, m_priority_heap holds
\* the priority of every bucket once and nothing else, and no bucket is
\* empty.
BucketMembersAgree ==
    "bucket" \in DOMAIN queues =>
        /\ queues["bucket"].m_num_elements
               = BucketTotal(queues["bucket"].m_elements,
                             DOMAIN queues["bucket"].m_elements)
        /\ queues["bucket"].m_priority_heap
               = SetToBag(DOMAIN queues["bucket"].m_elements)
        /\ \A priority \in DOMAIN queues["bucket"].m_elements :
              Len(queues["bucket"].m_elements[priority]) >= 1

\* The buckets with the priority pr left out.
OtherBuckets(m_elements, pr) ==
    [priority \in DOMAIN m_elements \ {pr} |-> m_elements[priority]]

\* A push puts its element on top of the bucket of its priority and a pop
\* returns and removes the element on top of the bucket of the least
\* priority, the one pushed last among those the bucket holds; neither
\* changes another bucket.
BucketsAreStacks ==
    \A n \in DOMAIN last_queue_op' :
        LET before == queues["bucket"].m_elements
            after == queues'["bucket"].m_elements
            op == last_queue_op'[n]
        IN /\ op.op = "push" =>
                 /\ after[op.priority]
                        = (IF op.priority \in DOMAIN before THEN before[op.priority]
                           ELSE <<>>) \o <<op.element>>
                 /\ OtherBuckets(after, op.priority) = OtherBuckets(before, op.priority)
           /\ op.op = "pop" =>
                 /\ op.priority["bucket"] = Min(DOMAIN before)
                 /\ op.tops["bucket"]
                        = before[op.priority["bucket"]][Len(before[op.priority["bucket"]])]
                 /\ (IF op.priority["bucket"] \in DOMAIN after
                     THEN after[op.priority["bucket"]] ELSE <<>>)
                        = SubSeq(before[op.priority["bucket"]], 1,
                                 Len(before[op.priority["bucket"]]) - 1)
                 /\ OtherBuckets(after, op.priority["bucket"])
                        = OtherBuckets(before, op.priority["bucket"])
           /\ op.op = "clear" => after = <<>>

\* C37: after any sequence of push, pop on a non-empty queue and clear on a
\* BucketPriorityQueue its counter is the number of elements in its
\* buckets, its heap holds exactly the priorities of its buckets, each
\* once, and no bucket is empty; and each bucket is a stack, so that the
\* elements of one priority are returned last in, first out.
C37_BucketInvariants ==
    /\ []BucketMembersAgree
    /\ [][pc = "queue" => BucketsAreStacks]_vars

\* A pop returned the later pushed of two different elements of the least
\* priority and left the earlier one in its bucket, after an earlier pop.
C37_Witness ==
    /\ pc = "queue"
    /\ queue_counts.pops >= 2
    /\ \E n \in DOMAIN last_queue_op :
          /\ last_queue_op[n].op = "pop"
          /\ last_queue_op[n].priority["bucket"] \in DOMAIN queues["bucket"].m_elements
          /\ queues["bucket"].m_elements[last_queue_op[n].priority["bucket"]]
                 # <<last_queue_op[n].tops["bucket"]>>
          /\ Len(queues["bucket"].m_elements[last_queue_op[n].priority["bucket"]]) = 1

----------------------------------------------------------------------------
(* What the loop of best_first_search keeps true, under SpecSearch *)

\* The nodes in the frontier.
FrontierNodes(q) == {e[1] : e \in BagToSet(QueueEntries(q))}

\* The chain of parents of a node ends in a node without parent that holds
\* the initial state, and the state of every other node of the chain is
\* what getNextState gives for the state of its parent and some action.
RECURSIVE ChainLeadsFromRoot(_, _, _)
ChainLeadsFromRoot(puz, scratch, node) ==
    IF node.parent = <<>> THEN node.state = puz.m_initial_state
    ELSE /\ \E action \in Actions :
               getNextState(puz, scratch, node.parent[1].state, action).state = node.state
         /\ ChainLeadsFromRoot(puz, scratch, node.parent[1])

\* While the loop runs and after it: the state of every node in the
\* frontier is in visited, no two nodes in the frontier hold the same
\* state, none holds a state that satisfies the goal, and the chain of
\* every node leads from the root.
LoopInvariant ==
    (pc = "loop" \/ (pc = "done" /\ ~satisfiesGoal(Puz, Puz.m_initial_state))) =>
        /\ \A node \in FrontierNodes(frontier) :
              /\ node.state \in visited
              /\ ~satisfiesGoal(Puz, node.state)
              /\ ChainLeadsFromRoot(Puz, Scratch, node)
        /\ BagCardinality(QueueEntries(frontier))
               = Cardinality({node.state : node \in FrontierNodes(frontier)})
        /\ Puz.m_initial_state \in visited

\* An iteration of the loop pushes only nodes whose states were not in
\* visited, no two of them with the same state, puts these states into
\* visited and takes nothing out of it: a state is pushed, and so passed
\* to the heuristic, at most once in a search.
PushesAreNew ==
    pc = "loop" =>
        LET pushed == QueueEntries(frontier') (-) QueueEntries(frontier)
            states == {e[1].state : e \in BagToSet(pushed)}
        IN /\ states \cap visited = {}
           /\ BagCardinality(pushed) = Cardinality(states)
           /\ visited' = visited \cup states

\* C38: in best_first_search every frontier node's state is in visited, no
\* two nodes that are pushed hold the same state, no state that satisfies
\* the goal is pushed, and the parents of every node lead back to the root
\* with the initial state, each node's state being getNextState of its
\* parent's state and some action.
C38_LoopInvariants ==
    /\ []LoopInvariant
    /\ [][PushesAreNew]_vars

\* The loop has popped nodes and the frontier holds two nodes, one of them
\* two steps from the root.
C38_Witness ==
    /\ pc = "loop"
    /\ BagCardinality(QueueEntries(frontier)) >= 2
    /\ Cardinality(visited) > BagCardinality(QueueEntries(frontier)) + 1
    /\ \E node \in FrontierNodes(frontier) :
          /\ node.parent # <<>>
          /\ node.parent[1].parent # <<>>

----------------------------------------------------------------------------
(* The action of a step that changes the state, under SpecPuzzle *)

\* The state getNextState gives for the present state and the action.
NextOf(action) == getNextState(Puz, Scratch, state, action).state

\* Two different actions give the same next state only when both leave the
\* state as it is.
ActionsAreDistinguished ==
    \A a, b \in Actions :
        (a # b /\ NextOf(a) = NextOf(b)) => (NextOf(a) = state /\ NextOf(b) = state)

\* For a node that holds the next state of a state-changing action and
\* whose parent holds the present state, the loop of backtrackPlan over the
\* actions finds that action.
BacktrackRecoversAction ==
    \A a \in Actions :
        NextOf(a) # state =>
            FindAction(Puz, Scratch,
                       SearchNode(<<SearchNode(<<>>, state)>>, NextOf(a)), 0).action = a

\* C39: no two distinct actions lead from a state to the same next state
\* unless both leave the state unchanged, so that the action backtrackPlan
\* recovers for a step that changes the state is the action taken.
C39_ActionIsUnique == ActionsAreDistinguished /\ BacktrackRecoversAction

\* After a call that moved an object other than the agent: two actions
\* change the present state and two leave it unchanged.
C39_Witness ==
    /\ last_call # <<>>
    /\ Len(last_call[1].result.moved_object_indices) >= 2
    /\ \E a, b, c, d \in Actions :
          /\ a # b /\ c # d
          /\ NextOf(a) # state /\ NextOf(b) # state
          /\ NextOf(c) = state /\ NextOf(d) = state

----------------------------------------------------------------------------
(* Where the estimate of the heuristic is zero, under SpecRGD *)

\* What the goal entry i adds to the cost in estimate_cost_to_goal of a
\* fresh heuristic.
GoalEntryCost(reversed, fewest_tools, s, i) ==
    IF fewest_tools
    THEN get_fewest_tools_goal_cost(HeuristicContext(reversed), FreshHeuristicData, s,
                                    i + 1, Puz.m_goal[i]).value
    ELSE get_goal_cost(HeuristicContext(reversed), FreshHeuristicData, s, i + 1,
                       Puz.m_goal[i], Puz.m_num_objects - 2).value

\* A goal object at its goal position adds 0 and any other adds at least 1
\* or infinity.
GoalEntriesAreZeroAtGoal ==
    \A reversed, fewest_tools \in BOOLEAN :
        \A i \in 0 .. GoalSize(Puz) - 1 :
            IF state[i + 1] = Puz.m_goal[i]
            THEN GoalEntryCost(reversed, fewest_tools, state, i) = 0
            ELSE \/ GoalEntryCost(reversed, fewest_tools, state, i) = Infinity
                 \/ /\ GoalEntryCost(reversed, fewest_tools, state, i) >= 1
                    /\ GoalEntryCost(reversed, fewest_tools, state, i) < Infinity

\* C40: estimate_cost_to_goal returns 0 exactly for the states that satisfy
\* the goal, with either setting of fewest_tools: a goal object at its goal
\* position contributes 0 and every other goal object at least 1 or
\* infinity.
C40_ZeroExactlyAtGoal ==
    pc = "ready" =>
        /\ GoalEntriesAreZeroAtGoal
        /\ \A reversed, fewest_tools \in BOOLEAN :
              (estimate_cost_to_goal(HeuristicContext(reversed), FreshHeuristicData,
                                     fewest_tools, state).value = 0)
                  <=> satisfiesGoal(Puz, state)
        /\ \A n \in DOMAIN last_estimate :
              (last_estimate[n].cost = 0) <=> satisfiesGoal(Puz, last_estimate[n].state)

\* The heuristic returned 0 for a state that the caller reached by pushing
\* an object onto its goal position.
C40_Witness ==
    /\ pc = "ready"
    /\ GoalSize(Puz) >= 1
    /\ state # Puz.m_initial_state
    /\ \E n \in DOMAIN last_estimate :
          /\ last_estimate[n].state = state
          /\ last_estimate[n].cost = 0
          /\ satisfiesGoal(Puz, state)

====
